---- MODULE Spec2Model ----
(***************************************************************************)
(* Model of the ROSA provider of openshift/osde2e-common: the cluster      *)
(* creation saga (Provider.CreateCluster), its compensation                *)
(* (Provider.cleanup), the account-role resolver                           *)
(* (Provider.CreateAccountRoles / getAccountRoles), the OIDC config        *)
(* resolver (Provider.CreateOIDCConfig / oidcConfigLookup), the teardown   *)
(* (Provider.DeleteCluster), the version filter (Provider.Versions) and    *)
(* the version gate agreement of the OSD provider (addGateAgreement).      *)
(*                                                                         *)
(* Go strings are modelled as sequences of tokens, so that                 *)
(* strings.HasPrefix and strings.Contains are computed, not assumed; the   *)
(* empty string is <<>>.  Every request to a collaborator (rosa binary,    *)
(* cluster manager API, network provisioner) is appended to `calls`, with  *)
(* its outcome chosen nondeterministically.                                *)
(***************************************************************************)
EXTENDS Integers, Naturals, Sequences, FiniteSets, TLC

VARIABLES
    pc,          \* position of the CreateCluster invocation
    fedRamp,     \* Provider.fedRamp
    opts0,       \* the options record as the caller passed it
    opts,        \* the options record, as mutated by CreateCluster
    resources,   \* the createdResources tracker of the invocation
    roleList,    \* collaborator: the account roles `rosa list account-roles` returns
    oidcList,    \* collaborator: the OIDC configs the cluster manager lists
    stacks,      \* collaborator: the network stacks that exist (by cluster name)
    clusterUp,   \* collaborator: the create cluster command was accepted
    calls,       \* history: every collaborator request, in order
    trace,       \* history: every phase of CreateCluster that returned, in order
    compensated, \* history: number of times cleanup ran
    logged,      \* history: the errors cleanup logged
    ret,         \* the (id, error) pair CreateCluster returned
    polls,       \* number of polls the wait loop in progress has made
    rcalls,      \* resolver harness: results of successive CreateAccountRoles calls
    rprefix,     \* resolver harness: the prefix the calls use
    cancelled,   \* the caller's context was cancelled
    observed,    \* history: what each poll of a wait loop observed, in order
    dopts0,      \* the DeleteClusterOptions as the caller passed them
    dopts,       \* the DeleteClusterOptions, as mutated by DeleteCluster
    cluster,     \* collaborator: the live cluster record findCluster returns
    sent,        \* history: the arguments of the create and network requests, in order
    regionList,  \* collaborator: the regions of the account, with their capabilities
    hin,         \* function harness: the inputs of the function under study
    hout,        \* function harness: what the function returned
    changes      \* collaborator: number of changes others made to the role inventory

vars == <<pc, fedRamp, opts0, opts, resources, roleList, oidcList, stacks,
          clusterUp, calls, trace, compensated, logged, ret, polls, rcalls, rprefix,
          cancelled, observed, dopts0, dopts, cluster, sent, regionList, hin, hout,
          changes>>

\* what CreateCluster and the resolvers never change
deleteVars == <<dopts0, dopts, cluster, regionList, hin, hout, changes>>

-----------------------------------------------------------------------------
(* Bounds *)

MaxPolls == 2
ReplicaBound == 4
MaxVersions == 3
MaxConstraints == 2
MaxResolveCalls == 3
MaxAttempts == 2
MaxInventoryChanges == 2

-----------------------------------------------------------------------------
(* Strings *)

EmptyString == <<>>

HasPrefix(s, p) == Len(p) <= Len(s) /\ SubSeq(s, 1, Len(p)) = p

Contains(s, sub) ==
    \E i \in 0..(Len(s) - Len(sub)) : SubSeq(s, i + 1, i + Len(sub)) = sub

defaultAccountRolesPrefix == <<"ManagedOpenShift">>

fedRampRolesCount == 4
commercialRolesCount == 7

-----------------------------------------------------------------------------
(* github.com/Masterminds/semver/v3.  A version or constraint string is the *)
(* sequence of its tokens: the dotted parts (the dots are left out), an     *)
(* optional leading "v", a prerelease tag, a metadata tag, an operator,     *)
(* and the separators of a constraint                                       *)

Digits == {"0", "1", "3", "4", "12", "13", "14"}
Wildcards == {"x", "X", "*"}
PrereleaseTokens == {"-nightly"}
MetadataTokens == {"+build"}

\* strconv on the numeric tokens
Atoi ==
    [t \in Digits |->
        CASE t = "0" -> 0 [] t = "1" -> 1 [] t = "3" -> 3 [] t = "4" -> 4
          [] t = "12" -> 12 [] t = "13" -> 13 [] OTHER -> 14]

\* the string without the optional leading "v"
TrimV(v) == IF v # <<>> /\ v[1] = "v" THEN Tail(v) ELSE v

\* Version.Metadata: the tag after "+", "" when there is none
Metadata(v) == IF v # <<>> /\ v[Len(v)] \in MetadataTokens THEN v[Len(v)] ELSE ""

BeforeMetadata(v) == IF Metadata(v) # "" THEN SubSeq(v, 1, Len(v) - 1) ELSE v

\* Version.Prerelease: the tag after "-", "" when there is none
Prerelease(v) ==
    LET w == BeforeMetadata(v)
    IN IF w # <<>> /\ w[Len(w)] \in PrereleaseTokens THEN w[Len(w)] ELSE ""

\* the dotted parts in front of the prerelease and metadata tags
Parts(v) ==
    LET w == BeforeMetadata(TrimV(v))
    IN IF Prerelease(v) # "" THEN SubSeq(w, 1, Len(w) - 1) ELSE w

\* semver.NewVersion: a version parses when it has one to three numeric
\* parts, whatever tags follow them
NewVersionOk(v) ==
    Len(Parts(v)) \in 1..3 /\ \A i \in 1..Len(Parts(v)) : Parts(v)[i] \in Digits

\* the i-th numeric part of a parsed version; a missing part is 0
VersionPart(v, i) == IF i <= Len(Parts(v)) THEN Atoi[Parts(v)[i]] ELSE 0

\* semver.NewVersion: <<major, minor, patch>>
NewVersion(v) == <<VersionPart(v, 1), VersionPart(v, 2), VersionPart(v, 3)>>

\* fmt.Sprintf("%d.%d", version.Major(), version.Minor())
majorMinor(v) == <<Parts(v)[1], ".", IF Len(Parts(v)) >= 2 THEN Parts(v)[2] ELSE "0">>

\* the order of <<major, minor, patch>>
LessThan(a, b) ==
    \/ a[1] < b[1]
    \/ a[1] = b[1] /\ a[2] < b[2]
    \/ a[1] = b[1] /\ a[2] = b[2] /\ a[3] < b[3]

\* Version.Compare on <<major, minor, patch>> and the prerelease tag: -1, 0
\* or 1; a release is greater than its prereleases, the metadata is ignored
\* (two tags that differ do not occur: the model has one prerelease tag)
Compare(a, apre, b, bpre) ==
    CASE LessThan(a, b) -> -1
      [] LessThan(b, a) -> 1
      [] apre = bpre -> 0
      [] apre = "" -> 1
      [] OTHER -> -1

ConstraintOperators ==
    {"=", "!=", ">", "<", ">=", "=>", "<=", "=<", "~", "~>", "^"}

\* the separators of a constraint string: of the alternatives, of the
\* comparisons that must all hold, and of the two ends of a range
OrSeparator == "||"
AndSeparator == ","
RangeSeparator == " - "

\* strings.Split
RECURSIVE Split(_, _)
Split(s, sep) ==
    IF \A i \in 1..Len(s) : s[i] # sep THEN <<s>>
    ELSE LET k == CHOOSE i \in 1..Len(s) :
                     s[i] = sep /\ \A j \in 1..(i - 1) : s[j] # sep
         IN <<SubSeq(s, 1, k - 1)>> \o Split(SubSeq(s, k + 1, Len(s)), sep)

\* the operator of one comparison, "" when it has none, and its version
operatorOf(e) == IF e # <<>> /\ e[1] \in ConstraintOperators THEN e[1] ELSE ""
versionOf(e) == IF operatorOf(e) # "" THEN Tail(e) ELSE e

\* the version of a comparison: one to three parts, each a number or a wildcard
constraintVersionOk(cv) ==
    Len(Parts(cv)) \in 1..3
    /\ \A i \in 1..Len(Parts(cv)) : Parts(cv)[i] \in Digits \cup Wildcards

\* rewriteRange: "a - b" stands for ">= a, <= b"
isRange(e) == Len(Split(e, RangeSeparator)) > 1

comparisonsOf(e) ==
    IF isRange(e)
    THEN << <<">=">> \o Split(e, RangeSeparator)[1],
            <<"<=">> \o Split(e, RangeSeparator)[2] >>
    ELSE <<e>>

\* one element of a constraint string parses
elementOk(e) ==
    IF isRange(e)
    THEN /\ Len(Split(e, RangeSeparator)) = 2
         /\ \A i \in 1..2 : /\ operatorOf(Split(e, RangeSeparator)[i]) = ""
                            /\ constraintVersionOk(Split(e, RangeSeparator)[i])
    ELSE constraintVersionOk(versionOf(e))

\* semver.NewConstraint: every element of every alternative parses
NewConstraintOk(c) ==
    \A g \in 1..Len(Split(c, OrSeparator)) :
        \A k \in 1..Len(Split(Split(c, OrSeparator)[g], AndSeparator)) :
            elementOk(Split(Split(c, OrSeparator)[g], AndSeparator)[k])

\* parseConstraint: the operator, the version with 0 for the parts that are
\* missing or a wildcard, and which of the parts were
parseConstraint(e) ==
    LET p == Parts(versionOf(e))
        open(i) == i > Len(p) \/ p[i] \in Wildcards
        base == [op |-> operatorOf(e), pre |-> Prerelease(versionOf(e)),
                 con |-> <<0, 0, 0>>, minorDirty |-> FALSE, patchDirty |-> FALSE,
                 dirty |-> TRUE]
    IN IF open(1) THEN base
       ELSE IF open(2)
       THEN [base EXCEPT !.con = <<Atoi[p[1]], 0, 0>>, !.minorDirty = TRUE]
       ELSE IF open(3)
       THEN [base EXCEPT !.con = <<Atoi[p[1]], Atoi[p[2]], 0>>, !.patchDirty = TRUE]
       ELSE [base EXCEPT !.con = <<Atoi[p[1]], Atoi[p[2]], Atoi[p[3]]>>,
                         !.dirty = FALSE]

\* a prerelease version satisfies no comparison with a release
prereleaseBarred(v, c) == Prerelease(v) # "" /\ c.pre = ""

\* v.Compare(c.con)
compareTo(v, c) == Compare(NewVersion(v), Prerelease(v), c.con, c.pre)

constraintTilde(v, c) ==
    /\ ~prereleaseBarred(v, c)
    /\ compareTo(v, c) >= 0
    /\ \/ c.con = <<0, 0, 0>> /\ ~c.minorDirty /\ ~c.patchDirty
       \/ /\ NewVersion(v)[1] = c.con[1]
          /\ NewVersion(v)[2] = c.con[2] \/ c.minorDirty

constraintTildeOrEqual(v, c) ==
    /\ ~prereleaseBarred(v, c)
    /\ IF c.dirty THEN constraintTilde(v, c) ELSE compareTo(v, c) = 0

constraintNotEqual(v, c) ==
    LET pv == NewVersion(v)
    IN IF ~c.dirty THEN compareTo(v, c) # 0
       ELSE IF prereleaseBarred(v, c) THEN FALSE
       ELSE IF c.con[1] # pv[1] THEN TRUE
       ELSE IF c.con[2] # pv[2] /\ ~c.minorDirty THEN TRUE
       ELSE IF c.minorDirty THEN FALSE
       ELSE IF c.con[3] # pv[3] /\ ~c.patchDirty THEN TRUE
       ELSE IF c.patchDirty THEN Prerelease(v) # c.pre
       ELSE compareTo(v, c) # 0

constraintGreaterThan(v, c) ==
    LET pv == NewVersion(v)
    IN /\ ~prereleaseBarred(v, c)
       /\ IF ~c.dirty THEN compareTo(v, c) = 1
          ELSE IF pv[1] > c.con[1] THEN TRUE
          ELSE IF pv[1] < c.con[1] THEN FALSE
          ELSE IF c.minorDirty THEN FALSE
          ELSE IF c.patchDirty THEN pv[2] > c.con[2]
          ELSE compareTo(v, c) = 1

constraintLessThan(v, c) == ~prereleaseBarred(v, c) /\ compareTo(v, c) < 0

constraintGreaterThanEqual(v, c) == ~prereleaseBarred(v, c) /\ compareTo(v, c) >= 0

constraintLessThanEqual(v, c) ==
    LET pv == NewVersion(v)
    IN /\ ~prereleaseBarred(v, c)
       /\ IF ~c.dirty THEN compareTo(v, c) <= 0
          ELSE IF pv[1] > c.con[1] THEN FALSE
          ELSE ~(pv[1] = c.con[1] /\ pv[2] > c.con[2] /\ ~c.minorDirty)

constraintCaret(v, c) ==
    LET pv == NewVersion(v)
    IN /\ ~prereleaseBarred(v, c)
       /\ compareTo(v, c) >= 0
       /\ IF c.con[1] > 0 \/ c.minorDirty THEN pv[1] = c.con[1]
          ELSE IF pv[1] > 0 THEN FALSE
          ELSE IF c.con[2] > 0 \/ c.patchDirty THEN pv[2] = c.con[2]
          ELSE IF pv[2] > 0 THEN FALSE
          ELSE c.con[3] = pv[3]

\* constraint.check: the function of the operator
checkOne(c, v) ==
    CASE c.op \in {"", "="} -> constraintTildeOrEqual(v, c)
      [] c.op = "!=" -> constraintNotEqual(v, c)
      [] c.op = ">" -> constraintGreaterThan(v, c)
      [] c.op = "<" -> constraintLessThan(v, c)
      [] c.op \in {">=", "=>"} -> constraintGreaterThanEqual(v, c)
      [] c.op \in {"<=", "=<"} -> constraintLessThanEqual(v, c)
      [] c.op \in {"~", "~>"} -> constraintTilde(v, c)
      [] OTHER -> constraintCaret(v, c)

\* every comparison of one alternative holds
checkAnd(g, v) ==
    \A k \in 1..Len(Split(g, AndSeparator)) :
        \A j \in 1..Len(comparisonsOf(Split(g, AndSeparator)[k])) :
            checkOne(parseConstraint(comparisonsOf(Split(g, AndSeparator)[k])[j]), v)

\* Constraints.Check, for a parseable constraint c and a parseable version v
Check(c, v) ==
    \E g \in 1..Len(Split(c, OrSeparator)) : checkAnd(Split(c, OrSeparator)[g], v)

\* accountRolesPrefix of CreateCluster
accountRolesPrefixOf(options) ==
    IF options.UseDefaultAccountRolesPrefix
    THEN defaultAccountRolesPrefix \o <<"-">> \o majorMinor(options.Version)
    ELSE options.ClusterName

-----------------------------------------------------------------------------
(* Account roles *)

EmptyRoles ==
    [controlPlaneRoleARN |-> EmptyString, installerRoleARN |-> EmptyString,
     supportRoleARN |-> EmptyString, workerRoleARN |-> EmptyString,
     hcpInstallerRoleARN |-> EmptyString, hcpSupportRoleARN |-> EmptyString,
     hcpWorkerRoleARN |-> EmptyString]

\* one iteration of the loop of getAccountRoles
classifyRole(acc, role, prefix) ==
    IF ~HasPrefix(role.RoleName, prefix) THEN acc
    ELSE IF HasPrefix(role.RoleName, <<"HCP-ROSA">>)
            \/ HasPrefix(role.RoleName, prefix \o <<"-HCP-ROSA">>)
    THEN CASE role.RoleType = "Installer" ->
                [found |-> acc.found + 1,
                 roles |-> [acc.roles EXCEPT !.hcpInstallerRoleARN = role.RoleARN]]
           [] role.RoleType = "Support" ->
                [found |-> acc.found + 1,
                 roles |-> [acc.roles EXCEPT !.hcpSupportRoleARN = role.RoleARN]]
           [] role.RoleType = "Worker" ->
                [found |-> acc.found + 1,
                 roles |-> [acc.roles EXCEPT !.hcpWorkerRoleARN = role.RoleARN]]
           [] OTHER -> acc
    ELSE CASE role.RoleType = "Control plane" ->
                [found |-> acc.found + 1,
                 roles |-> [acc.roles EXCEPT !.controlPlaneRoleARN = role.RoleARN]]
           [] role.RoleType = "Installer" ->
                [found |-> acc.found + 1,
                 roles |-> [acc.roles EXCEPT !.installerRoleARN = role.RoleARN]]
           [] role.RoleType = "Support" ->
                [found |-> acc.found + 1,
                 roles |-> [acc.roles EXCEPT !.supportRoleARN = role.RoleARN]]
           [] role.RoleType = "Worker" ->
                [found |-> acc.found + 1,
                 roles |-> [acc.roles EXCEPT !.workerRoleARN = role.RoleARN]]
           [] OTHER -> acc

RECURSIVE scanRoles(_, _, _)
scanRoles(list, prefix, acc) ==
    IF list = <<>> THEN acc
    ELSE scanRoles(Tail(list), prefix, classifyRole(acc, Head(list), prefix))

\* the result of a resolver function: (nil, err), (nil, nil) or (roles, nil)
RolesResult(err, isNil, roles) == [err |-> err, isNil |-> isNil, roles |-> roles]

\* getAccountRoles; listOk is the outcome of `rosa list account-roles`
getAccountRoles(listOk, list, prefix, fed) ==
    IF ~listOk THEN RolesResult(TRUE, TRUE, EmptyRoles)
    ELSE LET acc == scanRoles(list, prefix, [found |-> 0, roles |-> EmptyRoles])
         IN CASE acc.found = 0 -> RolesResult(FALSE, TRUE, EmptyRoles)
              [] fed /\ acc.found = fedRampRolesCount -> RolesResult(FALSE, FALSE, acc.roles)
              [] acc.found # commercialRolesCount -> RolesResult(TRUE, TRUE, EmptyRoles)
              [] OTHER -> RolesResult(FALSE, FALSE, acc.roles)

Call(op, arg, ok) == [op |-> op, arg |-> arg, ok |-> ok]

\* a rosa command run on a cancelled context fails
CommandOutcomes(isCancelled) == IF isCancelled THEN {FALSE} ELSE BOOLEAN

\* r.awsCredentials.Region
Region == "region"

\* the arguments of one request; a field the request does not carry is empty
\* (a numeric argument is <<n>> when carried)
Request(op, clusterName, region, workingDir) ==
    [op |-> op, ClusterName |-> clusterName, Region |-> region,
     WorkingDir |-> workingDir, ChannelGroup |-> EmptyString,
     MultiAZ |-> FALSE, EnableAutoscaling |-> FALSE,
     Replicas |-> <<>>, MinReplicas |-> <<>>, MaxReplicas |-> <<>>,
     OidcConfigID |-> EmptyString, SubnetIDs |-> EmptyString, HostedCP |-> FALSE,
     HcpInstallerRoleARN |-> EmptyString, HcpSupportRoleARN |-> EmptyString,
     HcpWorkerRoleARN |-> EmptyString]

\* the arguments that go with the requests cs of one operation
RequestsOf(cs, op, request) ==
    IF \E i \in 1..Len(cs) : cs[i].op = op THEN <<request>> ELSE <<>>

\* an entry of `rosa list account-roles`; the roles of the model carry the
\* version tag 4.14 unless stated otherwise
Role(name, type) ==
    [RoleName |-> name, RoleARN |-> <<"arn:">> \o name, RoleType |-> type,
     Version |-> <<"4", ".", "14">>]

\* collaborator: the roles `rosa create account-roles --prefix p` creates
createdRoleSet(prefix, fed) ==
    LET base == << Role(prefix \o <<"-ControlPlane-Role">>, "Control plane"),
                   Role(prefix \o <<"-Installer-Role">>, "Installer"),
                   Role(prefix \o <<"-Support-Role">>, "Support"),
                   Role(prefix \o <<"-Worker-Role">>, "Worker") >>
        hcp  == << Role(prefix \o <<"-HCP-ROSA", "-Installer-Role">>, "Installer"),
                   Role(prefix \o <<"-HCP-ROSA", "-Support-Role">>, "Support"),
                   Role(prefix \o <<"-HCP-ROSA", "-Worker-Role">>, "Worker") >>
    IN IF fed THEN base ELSE base \o hcp

\* collaborator: the inventory after `rosa create account-roles --prefix p`;
\* a role name exists once in an account
withCreatedRoles(list, prefix, fed) ==
    list \o SelectSeq(createdRoleSet(prefix, fed),
                      LAMBDA r : \A i \in DOMAIN list : list[i].RoleName # r.RoleName)

\* the outcomes of the collaborator requests one CreateAccountRoles call makes:
\* list1/list2 are the two listings, create is "fail", "ok" (the roles are
\* listed afterwards) or "lag" (the command succeeded, the listing does not
\* show the roles yet)
ResolverEnvs == [list1 : BOOLEAN, create : {"fail", "ok", "lag"}, list2 : BOOLEAN]

\* the arguments of `rosa create account-roles` that the claims study
accountRolesRequest(channelGroup) ==
    [Request("create account-roles", EmptyString, "", EmptyString) EXCEPT
        !.ChannelGroup = channelGroup]

\* CreateAccountRoles: get, create when nothing was found, get again
CreateAccountRoles(list, prefix, fed, env) ==
    LET first == getAccountRoles(env.list1, list, prefix, fed)
        c1 == <<Call("list account-roles", prefix, env.list1)>>
    IN IF first.err
       THEN [res |-> RolesResult(TRUE, TRUE, EmptyRoles), calls |-> c1, list |-> list]
       ELSE IF first.isNil
       THEN LET c2 == c1 \o <<Call("create account-roles", prefix, env.create # "fail")>>
            IN IF env.create = "fail"
               THEN [res |-> RolesResult(TRUE, TRUE, EmptyRoles), calls |-> c2, list |-> list]
               ELSE LET list2 == IF env.create = "ok"
                                 THEN list \o createdRoleSet(prefix, fed) ELSE list
                        second == getAccountRoles(env.list2, list2, prefix, fed)
                        c3 == c2 \o <<Call("list account-roles", prefix, env.list2)>>
                    IN IF second.err
                       THEN [res |-> RolesResult(TRUE, TRUE, EmptyRoles),
                             calls |-> c3, list |-> list2]
                       ELSE [res |-> second, calls |-> c3, list |-> list2]
       ELSE [res |-> first, calls |-> c1, list |-> list]

-----------------------------------------------------------------------------
(* OIDC config *)

OidcConfig(id, secretArn) == [ID |-> id, SecretArn |-> secretArn]

\* oidcConfigLookup: the first listed config whose secret ARN contains prefix
RECURSIVE firstMatch(_, _)
firstMatch(list, prefix) ==
    IF list = <<>> THEN [found |-> FALSE, ID |-> EmptyString]
    ELSE IF Contains(Head(list).SecretArn, prefix)
         THEN [found |-> TRUE, ID |-> Head(list).ID]
         ELSE firstMatch(Tail(list), prefix)

oidcConfigLookup(listOk, list, prefix) ==
    IF ~listOk THEN [err |-> TRUE, found |-> FALSE, ID |-> EmptyString]
    ELSE [err |-> FALSE] @@ firstMatch(list, prefix)

NewOidcID == <<"oidc-new">>

\* collaborator: the config `rosa create oidc-config` creates; a restricted
\* partition creates a managed config, which carries no prefix
createdOidcConfig(prefix, fed) ==
    OidcConfig(NewOidcID, IF fed THEN <<"arn:secret:", "managed">>
                          ELSE <<"arn:secret:">> \o prefix)

\* outcomes of the requests of one CreateOIDCConfig call: the listing, and the
\* create command ("fail", "ok", or "garbled": it succeeded with unparsable output)
OidcEnvs == [lookup : BOOLEAN, create : {"fail", "ok", "garbled"}]

\* CreateOIDCConfig without the lookup: it always issues the create
CreateOIDCConfigNoLookup(list, prefix, installerRoleArn, fed, env) ==
    IF prefix = EmptyString \/ installerRoleArn = EmptyString
    THEN [err |-> TRUE, ID |-> EmptyString, calls |-> <<>>, list |-> list]
    ELSE LET c2 == <<Call("create oidc-config", prefix, env.create # "fail")>>
             list2 == list \o <<createdOidcConfig(prefix, fed)>>
         IN CASE env.create = "fail" ->
                   [err |-> TRUE, ID |-> EmptyString, calls |-> c2, list |-> list]
              [] env.create = "garbled" ->
                   [err |-> TRUE, ID |-> EmptyString, calls |-> c2, list |-> list2]
              [] OTHER ->
                   [err |-> FALSE, ID |-> NewOidcID, calls |-> c2, list |-> list2]

\* CreateOIDCConfig: look up by prefix, create when nothing was found
CreateOIDCConfig(list, prefix, installerRoleArn, fed, env) ==
    IF prefix = EmptyString \/ installerRoleArn = EmptyString
    THEN [err |-> TRUE, ID |-> EmptyString, calls |-> <<>>, list |-> list]
    ELSE LET look == oidcConfigLookup(env.lookup, list, prefix)
             c1 == <<Call("list oidc-configs", prefix, env.lookup)>>
         IN IF look.found
            THEN [err |-> FALSE, ID |-> look.ID, calls |-> c1, list |-> list]
            ELSE IF look.err
            THEN [err |-> TRUE, ID |-> EmptyString, calls |-> c1, list |-> list]
            ELSE LET c2 == c1 \o <<Call("create oidc-config", prefix, env.create # "fail")>>
                     list2 == list \o <<createdOidcConfig(prefix, fed)>>
                 IN CASE env.create = "fail" ->
                           [err |-> TRUE, ID |-> EmptyString, calls |-> c2, list |-> list]
                      [] env.create = "garbled" ->
                           [err |-> TRUE, ID |-> EmptyString, calls |-> c2, list |-> list2]
                      [] OTHER ->
                           [err |-> FALSE, ID |-> NewOidcID, calls |-> c2, list |-> list2]

RECURSIVE removeOidc(_, _)
removeOidc(list, id) ==
    IF list = <<>> THEN <<>>
    ELSE IF Head(list).ID = id THEN removeOidc(Tail(list), id)
         ELSE <<Head(list)>> \o removeOidc(Tail(list), id)

RECURSIVE removeRoles(_, _)
removeRoles(list, prefix) ==
    IF list = <<>> THEN <<>>
    ELSE IF HasPrefix(Head(list).RoleName, prefix) THEN removeRoles(Tail(list), prefix)
         ELSE <<Head(list)>> \o removeRoles(Tail(list), prefix)

-----------------------------------------------------------------------------
(* Network stack *)

PrivateSubnet == <<"subnet-private">>
PublicSubnet == <<"subnet-public">>

VpcEnvs == {"fail", "ok", "nooutput"}

\* createVPC: "nooutput" is a stack that was created and whose outputs could
\* not be read, which createVPC reports as a failure
createVPC(st, clusterName, env) ==
    IF clusterName = EmptyString
    THEN [err |-> TRUE, calls |-> <<>>, stacks |-> st]
    ELSE [err |-> env # "ok",
          calls |-> <<Call("create vpc", clusterName, env # "fail")>>,
          stacks |-> IF env = "fail" THEN st ELSE st \cup {clusterName}]

\* deleteVPC
deleteVPC(st, clusterName, ok) ==
    IF clusterName = EmptyString
    THEN [err |-> TRUE, calls |-> <<>>, stacks |-> st]
    ELSE [err |-> ~ok,
          calls |-> <<Call("delete vpc", clusterName, ok)>>,
          stacks |-> IF ok THEN st \ {clusterName} ELSE st]

-----------------------------------------------------------------------------
(* Compensation *)

\* os.TempDir()
TempDir == <<"/tmp">>

\* a tracker that records the default working directory, not that of the options
NoResourcesDefaultDir(options) ==
    [createdVPC |-> FALSE, clusterName |-> options.ClusterName,
     accountRolesPrefix |-> EmptyString, oidcConfigID |-> EmptyString,
     region |-> Region, workingDir |-> TempDir]

NoResources(options) ==
    [createdVPC |-> FALSE, clusterName |-> options.ClusterName,
     accountRolesPrefix |-> EmptyString, oidcConfigID |-> EmptyString,
     region |-> Region, workingDir |-> options.WorkingDir]

CleanupEnvs == [vpc : BOOLEAN, oidc : BOOLEAN, roles : BOOLEAN]

\* the collaborator state cleanup acts on
World(st, ol, rl) == [stacks |-> st, oidcList |-> ol, roleList |-> rl]

\* the arguments cleanup passes to deleteVPC
teardownRequest(res, v) ==
    RequestsOf(v.calls, "delete vpc",
               Request("delete vpc", res.clusterName, res.region, res.workingDir))

\* the three teardowns of cleanup, each on the collaborator state it acts on
teardownVPC(res, st, ok) ==
    IF res.createdVPC
    THEN deleteVPC(st, res.clusterName, ok)
    ELSE [err |-> FALSE, calls |-> <<>>, stacks |-> st]

teardownOIDC(res, ol, ok) ==
    IF res.oidcConfigID # EmptyString
    THEN [err |-> ~ok,
          calls |-> <<Call("delete oidc-config", res.oidcConfigID, ok)>>,
          list |-> IF ok THEN removeOidc(ol, res.oidcConfigID) ELSE ol]
    ELSE [err |-> FALSE, calls |-> <<>>, list |-> ol]

teardownRoles(res, rl, ok) ==
    IF res.accountRolesPrefix # EmptyString
    THEN [err |-> ~ok,
          calls |-> <<Call("delete account-roles", res.accountRolesPrefix, ok)>>,
          list |-> IF ok THEN removeRoles(rl, res.accountRolesPrefix) ELSE rl]
    ELSE [err |-> FALSE, calls |-> <<>>, list |-> rl]

cleanupLog(v, o, a) ==
    (IF v.err THEN <<"delete vpc">> ELSE <<>>)
    \o (IF o.err THEN <<"delete oidc-config">> ELSE <<>>)
    \o (IF a.err THEN <<"delete account-roles">> ELSE <<>>)

\* cleanup that returns at the first teardown that fails
cleanupStopsAtFirstError(res, w, env) ==
    LET v == teardownVPC(res, w.stacks, env.vpc)
        none == [err |-> FALSE, calls |-> <<>>]
        o == IF v.err THEN none @@ [list |-> w.oidcList]
             ELSE teardownOIDC(res, w.oidcList, env.oidc)
        a == IF v.err \/ o.err THEN none @@ [list |-> w.roleList]
             ELSE teardownRoles(res, w.roleList, env.roles)
    IN [calls |-> v.calls \o o.calls \o a.calls,
        logged |-> cleanupLog(v, o, a),
        sent |-> teardownRequest(res, v),
        world |-> World(v.stacks, o.list, a.list)]

\* cleanup: tear down the tracked network stack, then the tracked OIDC config,
\* then the tracked account roles; a failure is logged and the next is tried
cleanup(res, w, env) ==
    LET v == teardownVPC(res, w.stacks, env.vpc)
        o == teardownOIDC(res, w.oidcList, env.oidc)
        a == teardownRoles(res, w.roleList, env.roles)
    IN [calls |-> v.calls \o o.calls \o a.calls,
        logged |-> cleanupLog(v, o, a),
        sent |-> teardownRequest(res, v),
        world |-> World(v.stacks, o.list, a.list)]

-----------------------------------------------------------------------------
(* Region check *)

\* a region of the account as `rosa list regions` reports it
RegionEntry(id, enabled, hyperShift, multiAZ) ==
    [ID |-> id, Enabled |-> enabled,
     SupportsHyperShift |-> hyperShift, SupportsMultiAZ |-> multiAZ]

\* the regions of the account: none, the target region alone (enabled or
\* disabled, with both capabilities), the target region behind another one
\* and without either capability, and another region only
RegionLists ==
    { <<>>,
      <<RegionEntry("region", TRUE, TRUE, TRUE)>>,
      <<RegionEntry("region", FALSE, TRUE, TRUE)>>,
      <<RegionEntry("other", TRUE, TRUE, TRUE), RegionEntry("region", TRUE, FALSE, FALSE)>>,
      <<RegionEntry("other", TRUE, TRUE, TRUE)>> }

\* regions with the capability flags left off the command
regionsArgsUnfiltered(hostedCP, multiAZ) == <<>>

\* regions: the capability flags of the `list regions` command
regionsArgs(hostedCP, multiAZ) ==
    (IF hostedCP THEN <<"--hosted-cp">> ELSE <<>>)
    \o (IF multiAZ THEN <<"--multi-az">> ELSE <<>>)

HasFlag(args, flag) == \E i \in 1..Len(args) : args[i] = flag

\* collaborator: the regions `rosa list regions` prints for the flags, those
\* that have every capability asked for
RECURSIVE listRegions(_, _)
listRegions(all, args) ==
    IF all = <<>> THEN <<>>
    ELSE LET r == Head(all)
             shown == /\ HasFlag(args, "--hosted-cp") => r.SupportsHyperShift
                      /\ HasFlag(args, "--multi-az") => r.SupportsMultiAZ
         IN (IF shown THEN <<r>> ELSE <<>>) \o listRegions(Tail(all), args)

\* regionCheck: TRUE when the check passes; regions is the listing obtained
RECURSIVE regionCheck(_, _, _)
regionCheck(listOk, regions, regionName) ==
    IF ~listOk \/ regions = <<>> THEN FALSE
    ELSE IF Head(regions).ID # regionName
         THEN regionCheck(listOk, Tail(regions), regionName)
         ELSE Head(regions).Enabled

\* the channel group whose versions CreateCluster waits for
Nightly == <<"nightly">>

\* the id of the nightly build of 4.14.3
NightlyVersion == <<"4", "14", "3", "-nightly">>

\* collaborator: what one `rosa list versions --channel-group nightly` request
\* can answer: a failure, an empty listing, or the nightly build of 4.14.3
NightlyAnswers ==
    { [ok |-> FALSE, versions |-> <<>>],
      [ok |-> TRUE, versions |-> <<>>],
      [ok |-> TRUE, versions |-> <<[ID |-> NightlyVersion]>>] }

\* the condition of the nightly wait: a listed version id contains the
\* requested version
nightlyFound(versions, wanted) ==
    \E i \in DOMAIN versions : Contains(versions[i].ID, wanted)

-----------------------------------------------------------------------------
(* Cluster create *)

NoError == [action |-> "", cause |-> "none"]

clusterError(action, err) == [action |-> action, cause |-> err]

\* setDefaultCreateClusterOptions
setDefaultCreateClusterOptions(o) ==
    [o EXCEPT !.STS = IF o.HostedCP THEN TRUE ELSE @,
              !.WorkingDir = IF @ = EmptyString THEN TempDir ELSE @]

\* the replica count validateCreateClusterOptions gives an unset count
defaultReplicas == 2

\* the replica count createCluster raises a multi-AZ request to
multiAZReplicas == 3

\* validateCreateClusterOptions: the defaulted options and the set of violations
validateCreateClusterOptions(options) ==
    [options |-> [options EXCEPT
                    !.ChannelGroup = IF @ = EmptyString THEN <<"stable">> ELSE @,
                    !.Replicas = IF @ = 0 THEN defaultReplicas ELSE @],
     errs |->
        (IF options.ClusterName = EmptyString THEN {"cluster name"} ELSE {})
        \cup (IF options.Version = EmptyString THEN {"cluster version"} ELSE {})
        \cup (IF options.HostedCP /\ options.OidcConfigID = EmptyString
              THEN {"oidc config id"} ELSE {})
        \cup (IF options.HostedCP /\ options.SubnetIDs = EmptyString
              THEN {"subnet ids"} ELSE {})
        \cup (IF (options.HostedCP \/ options.STS)
                 /\ options.accountRoles.controlPlaneRoleARN = EmptyString
              THEN {"control plane role"} ELSE {})
        \cup (IF (options.HostedCP \/ options.STS)
                 /\ options.accountRoles.installerRoleARN = EmptyString
              THEN {"installer role"} ELSE {})
        \cup (IF (options.HostedCP \/ options.STS)
                 /\ options.accountRoles.supportRoleARN = EmptyString
              THEN {"support role"} ELSE {})
        \cup (IF (options.HostedCP \/ options.STS)
                 /\ options.accountRoles.workerRoleARN = EmptyString
              THEN {"worker role"} ELSE {})]

ClusterID(clusterName) == <<"id-">> \o clusterName

CreateEnvs == [cmd : BOOLEAN, find : BOOLEAN]

\* a command line that carries the flat replica count as validation left it
createClusterArgsNoRaise(options) ==
    [options |-> options,
     request |->
        [Request("create cluster", options.ClusterName, Region, EmptyString) EXCEPT
            !.ChannelGroup = options.ChannelGroup,
            !.OidcConfigID = options.OidcConfigID,
            !.SubnetIDs = options.SubnetIDs,
            !.HostedCP = options.HostedCP,
            !.HcpInstallerRoleARN = IF options.HostedCP
                THEN options.accountRoles.hcpInstallerRoleARN ELSE EmptyString,
            !.HcpSupportRoleARN = IF options.HostedCP
                THEN options.accountRoles.hcpSupportRoleARN ELSE EmptyString,
            !.HcpWorkerRoleARN = IF options.HostedCP
                THEN options.accountRoles.hcpWorkerRoleARN ELSE EmptyString,
            !.MultiAZ = options.MultiAZ,
            !.EnableAutoscaling = options.EnableAutoscaling,
            !.MinReplicas = IF options.MinReplicas > 0
                            THEN <<options.MinReplicas>> ELSE <<>>,
            !.MaxReplicas = IF options.MaxReplicas > 0
                            THEN <<options.MaxReplicas>> ELSE <<>>,
            !.Replicas = IF options.MinReplicas = 0 /\ options.MaxReplicas = 0
                         THEN <<options.Replicas>> ELSE <<>>]]

\* createCluster, the command line: the validated options as the argument
\* building leaves them, and the arguments of `rosa create cluster`
createClusterArgs(options) ==
    LET o == IF options.MultiAZ /\ options.Replicas < multiAZReplicas
             THEN [options EXCEPT !.Replicas = multiAZReplicas] ELSE options
    IN [options |-> o,
        request |->
            [Request("create cluster", o.ClusterName, Region, EmptyString) EXCEPT
                !.ChannelGroup = o.ChannelGroup,
                !.OidcConfigID = o.OidcConfigID,
                !.SubnetIDs = o.SubnetIDs,
                !.HostedCP = o.HostedCP,
                !.HcpInstallerRoleARN = IF o.HostedCP
                    THEN o.accountRoles.hcpInstallerRoleARN ELSE EmptyString,
                !.HcpSupportRoleARN = IF o.HostedCP
                    THEN o.accountRoles.hcpSupportRoleARN ELSE EmptyString,
                !.HcpWorkerRoleARN = IF o.HostedCP
                    THEN o.accountRoles.hcpWorkerRoleARN ELSE EmptyString,
                !.MultiAZ = o.MultiAZ,
                !.EnableAutoscaling = o.EnableAutoscaling,
                !.MinReplicas = IF o.MinReplicas > 0 THEN <<o.MinReplicas>> ELSE <<>>,
                !.MaxReplicas = IF o.MaxReplicas > 0 THEN <<o.MaxReplicas>> ELSE <<>>,
                !.Replicas = IF o.MinReplicas = 0 /\ o.MaxReplicas = 0
                             THEN <<o.Replicas>> ELSE <<>>]]

\* createCluster: validate, run `rosa create cluster`, look the cluster up
createCluster(options, env) ==
    LET v == validateCreateClusterOptions(options)
        a == createClusterArgs(v.options)
        c1 == <<Call("create cluster", options.ClusterName, env.cmd)>>
        c2 == c1 \o <<Call("find cluster", options.ClusterName, env.find)>>
    IN IF v.errs # {}
       THEN [err |-> "validation", ID |-> EmptyString, calls |-> <<>>,
             sent |-> <<>>, options |-> v.options, up |-> FALSE]
       ELSE IF ~env.cmd
       THEN [err |-> "create command", ID |-> EmptyString, calls |-> c1,
             sent |-> <<a.request>>, options |-> a.options, up |-> FALSE]
       ELSE IF ~env.find
       THEN [err |-> "find cluster", ID |-> EmptyString, calls |-> c2,
             sent |-> <<a.request>>, options |-> a.options, up |-> TRUE]
       ELSE [err |-> "none", ID |-> ClusterID(options.ClusterName), calls |-> c2,
             sent |-> <<a.request>>, options |-> a.options, up |-> TRUE]

-----------------------------------------------------------------------------
(* CreateCluster: sequencing *)

\* an OIDC phase that ignores a supplied config id
needsOIDCAlways(options) == TRUE

\* CreateCluster resolves an OIDC config only when none was supplied
needsOIDC(options) == options.OidcConfigID = EmptyString

\* a network phase that applies to private link requests only
needsVPCPrivateLinkOnly(options) ==
    options.PrivateLink /\ options.SubnetIDs = EmptyString

\* CreateCluster provisions a network stack only for a hosted control plane
\* or private link cluster without supplied subnets
needsVPC(options) ==
    (options.HostedCP \/ options.PrivateLink) /\ options.SubnetIDs = EmptyString

\* CreateCluster with the network stack provisioned before the OIDC config
phaseAfterSwapped(phase, options) ==
    LET fromOIDC == IF needsOIDC(options) THEN "oidc" ELSE "create"
        fromVPC == IF needsVPC(options) THEN "vpc" ELSE fromOIDC
    IN CASE phase = "region" ->
              IF options.HostedCP \/ options.STS THEN "roles"
              ELSE IF needsVPC(options) THEN "vpc" ELSE "create"
         [] phase = "roles" -> fromVPC
         [] phase = "vpc" ->
              IF options.HostedCP \/ options.STS THEN fromOIDC ELSE "create"
         [] phase = "oidc" -> "create"
         [] phase = "create" -> "install"
         [] phase = "install" -> IF ~options.SkipHealthCheck THEN "health" ELSE "done"
         [] OTHER -> "done"

\* the phase CreateCluster enters after `phase` returned success
phaseAfter(phase, options) ==
    LET fromVPC == IF needsVPC(options) THEN "vpc" ELSE "create"
        fromOIDC == IF needsOIDC(options) THEN "oidc" ELSE fromVPC
    IN CASE phase = "region" ->
              IF options.HostedCP \/ options.STS THEN "roles" ELSE fromVPC
         [] phase = "roles" -> fromOIDC
         [] phase = "oidc" -> fromVPC
         [] phase = "vpc" -> "create"
         [] phase = "create" -> "install"
         [] phase = "install" -> IF ~options.SkipHealthCheck THEN "health" ELSE "done"
         [] OTHER -> "done"

\* a failure path on which a teardown error replaces the error of the phase
compensateAndFailMasking(err, res, w, env) ==
    LET cl == cleanup(res, w, env)
    IN [ret |-> [ID |-> EmptyString,
                 err |-> clusterError("create",
                            IF cl.logged # <<>> THEN cl.logged[Len(cl.logged)] ELSE err)],
        cl |-> cl]

\* `r.cleanup(ctx, resources); return "", &clusterError{action, err}`
compensateAndFail(err, res, w, env) ==
    [ret |-> [ID |-> EmptyString, err |-> clusterError("create", err)],
     cl |-> cleanup(res, w, env)]

Step(phase, ok, cause) == [phase |-> phase, ok |-> ok, cause |-> cause]

-----------------------------------------------------------------------------
(* Inputs *)

Demo == <<"demo">>
GoodVersion == <<"4", "14", "3">>
DefaultPrefix414 == defaultAccountRolesPrefix \o <<"-">> \o majorMinor(GoodVersion)

ClusterNames == {EmptyString, Demo}
Versions == {EmptyString, <<"bad">>, GoodVersion}
ChannelGroups == {EmptyString, <<"stable">>}
SuppliedOidcIDs == {EmptyString, <<"oidc-user">>}
SuppliedSubnetIDs == {EmptyString, <<"subnet-user">>}

\* the requests for a nightly build: the cluster "demo", hosted or classic,
\* with a version the nightly listing has (by its number or by its full id)
\* or lacks
NightlyInputs ==
    [HostedCP : BOOLEAN, STS : {FALSE}, PrivateLink : {FALSE},
     SkipHealthCheck : {TRUE}, UseDefaultAccountRolesPrefix : {FALSE},
     ClusterName : {Demo}, Version : Versions \cup {NightlyVersion},
     ChannelGroup : {Nightly},
     OidcConfigID : {EmptyString}, SubnetIDs : {EmptyString},
     accountRoles : {EmptyRoles},
     MultiAZ : {FALSE}, EnableAutoscaling : {FALSE},
     Replicas : {0}, MinReplicas : {0}, MaxReplicas : {0},
     WorkingDir : {EmptyString}]

\* the requests for a cluster over several availability zones, hosted or
\* classic
MultiAZInputs ==
    [HostedCP : BOOLEAN, STS : {FALSE}, PrivateLink : {FALSE},
     SkipHealthCheck : {TRUE}, UseDefaultAccountRolesPrefix : {FALSE},
     ClusterName : {Demo}, Version : {GoodVersion}, ChannelGroup : {EmptyString},
     OidcConfigID : {EmptyString}, SubnetIDs : {EmptyString},
     accountRoles : {EmptyRoles},
     MultiAZ : {TRUE}, EnableAutoscaling : {FALSE},
     Replicas : {0}, MinReplicas : {0}, MaxReplicas : {0},
     WorkingDir : {EmptyString}]

InputOptions ==
    [HostedCP : BOOLEAN, STS : BOOLEAN, PrivateLink : BOOLEAN,
     SkipHealthCheck : BOOLEAN, UseDefaultAccountRolesPrefix : BOOLEAN,
     ClusterName : ClusterNames, Version : Versions, ChannelGroup : ChannelGroups,
     OidcConfigID : SuppliedOidcIDs, SubnetIDs : SuppliedSubnetIDs,
     accountRoles : {EmptyRoles},
     MultiAZ : {FALSE}, EnableAutoscaling : {FALSE},
     Replicas : {0}, MinReplicas : {0}, MaxReplicas : {0},
     WorkingDir : {EmptyString}]
    \cup NightlyInputs \cup MultiAZInputs

\* seven roles with the prefix of which two are installer roles and none is
\* a control plane role
SkewedRoleSet(prefix) ==
    <<Role(prefix \o <<"-Installer-Role", "-old">>, "Installer")>>
    \o Tail(createdRoleSet(prefix, FALSE))

\* the seven roles of the prefix as an earlier run created them for 4.13
StaleRoleSet(prefix) ==
    [i \in 1..commercialRolesCount |-> [createdRoleSet(prefix, FALSE)[i] EXCEPT !.Version = <<"4", ".", "13">>]]

InitRoleLists ==
    { <<>>,
      createdRoleSet(Demo, FALSE),
      createdRoleSet(Demo, TRUE),
      SubSeq(createdRoleSet(Demo, FALSE), 1, 3),
      SkewedRoleSet(Demo),
      StaleRoleSet(Demo),
      createdRoleSet(DefaultPrefix414, FALSE) }

InitOidcLists ==
    { <<>>, <<OidcConfig(<<"oidc-old">>, <<"arn:secret:">> \o Demo)>> }

NoReturn == [ID |-> EmptyString, err |-> NoError]

\* the values of the function harness variables while no harness runs
NoInput == [fn |-> "none"]
NoOutput == [fn |-> "none"]

\* the values of the DeleteCluster variables while no DeleteCluster runs
IdleDeleteOptions ==
    [ClusterName |-> EmptyString, HostedCP |-> FALSE, STS |-> FALSE,
     PrivateLink |-> FALSE, DeleteHostedVPC |-> FALSE, DeleteOidcConfigID |-> FALSE,
     oidcConfigID |-> EmptyString]

NoCluster ==
    [Name |-> EmptyString, ID |-> EmptyString, RoleARN |-> EmptyString,
     OidcConfigID |-> EmptyString]

Init ==
    /\ pc = "start"
    /\ fedRamp \in BOOLEAN
    /\ opts0 \in InputOptions
    /\ opts = opts0
    /\ resources = NoResources(opts0)
    /\ roleList \in InitRoleLists
    /\ oidcList \in InitOidcLists
    /\ stacks = {}
    /\ clusterUp = FALSE
    /\ calls = <<>>
    /\ trace = <<>>
    /\ compensated = 0
    /\ logged = <<>>
    /\ ret = NoReturn
    /\ polls = 0
    /\ rcalls = <<>>
    /\ rprefix = EmptyString
    /\ cancelled = FALSE
    /\ observed = <<>>
    /\ dopts0 = IdleDeleteOptions
    /\ dopts = dopts0
    /\ cluster = NoCluster
    /\ sent = <<>>
    /\ regionList \in RegionLists
    /\ hin = NoInput
    /\ hout = NoOutput
    /\ changes = 0

-----------------------------------------------------------------------------
(* CreateCluster: the phases *)

\* a phase succeeded: CreateCluster continues with the next applicable phase
Continue(phase, newCalls, newSent, o, res, w) ==
    /\ pc' = phaseAfter(phase, o)
    /\ opts' = o
    /\ resources' = res
    /\ calls' = calls \o newCalls
    /\ sent' = sent \o newSent
    /\ trace' = Append(trace, Step(phase, TRUE, "none"))
    /\ stacks' = w.stacks
    /\ oidcList' = w.oidcList
    /\ roleList' = w.roleList
    /\ ret' = IF phaseAfter(phase, o) = "done"
              THEN [ID |-> ClusterID(o.ClusterName), err |-> NoError] ELSE ret
    /\ UNCHANGED <<compensated, logged>>

\* a phase failed and CreateCluster returns without compensation
Return(phase, cause, newCalls, newSent, id, o, w) ==
    /\ pc' = "done"
    /\ opts' = o
    /\ calls' = calls \o newCalls
    /\ sent' = sent \o newSent
    /\ trace' = Append(trace, Step(phase, FALSE, cause))
    /\ stacks' = w.stacks
    /\ oidcList' = w.oidcList
    /\ roleList' = w.roleList
    /\ ret' = [ID |-> id, err |-> clusterError("create", cause)]
    /\ UNCHANGED <<resources, compensated, logged>>

\* a phase failed and CreateCluster compensates, then returns
Fail(phase, cause, newCalls, newSent, o, w) ==
    \E env \in CleanupEnvs :
        LET f == compensateAndFail(cause, resources, w, env)
        IN /\ pc' = "done"
           /\ opts' = o
           /\ calls' = calls \o newCalls \o f.cl.calls
           /\ sent' = sent \o newSent \o f.cl.sent
           /\ trace' = Append(trace, Step(phase, FALSE, cause))
           /\ stacks' = f.cl.world.stacks
           /\ oidcList' = f.cl.world.oidcList
           /\ roleList' = f.cl.world.roleList
           /\ ret' = f.ret
           /\ compensated' = compensated + 1
           /\ logged' = logged \o f.cl.logged
           /\ UNCHANGED resources

Here == World(stacks, oidcList, roleList)

\* what the nightly wait and the region check leave alone
entryRest == <<fedRamp, opts0, clusterUp, rcalls, rprefix, cancelled, observed, deleteVars>>

\* the options CreateCluster works with: defaulted at its entry
entryOptions == IF pc = "start" THEN setDefaultCreateClusterOptions(opts) ELSE opts

\* CreateCluster for the nightly channel group, the entry: the defaults, then
\* the nightly wait starts with an interval in which no request is made
NightlyWait ==
    /\ pc = "start"
    /\ opts.ChannelGroup = Nightly
    /\ pc' = "nightly"
    /\ opts' = entryOptions
    /\ UNCHANGED <<resources, calls, trace, stacks, oidcList, roleList, ret,
                   compensated, logged, sent, polls, entryRest>>

\* the nightly wait, one poll. The condition runs on the context of the wait,
\* which the caller's cancellation does not reach
NightlyPoll ==
    /\ pc = "nightly"
    /\ polls < MaxPolls
    /\ \E a \in NightlyAnswers :
          LET c == <<Call("list versions", Nightly, a.ok)>>
          IN IF ~a.ok
             THEN /\ Return("nightly", "versions", c, <<>>, EmptyString, opts, Here)
                  /\ polls' = 0
             ELSE /\ pc' = IF nightlyFound(a.versions, opts.Version) THEN "region" ELSE "nightly"
                  /\ polls' = IF nightlyFound(a.versions, opts.Version) THEN 0 ELSE polls + 1
                  /\ calls' = calls \o c
                  /\ UNCHANGED <<opts, resources, trace, stacks, oidcList, roleList,
                                 ret, compensated, logged, sent>>
    /\ UNCHANGED entryRest

\* the timeout of the nightly wait elapses
NightlyTimeout ==
    /\ pc = "nightly"
    /\ polls = MaxPolls
    /\ Return("nightly", "nightly timeout", <<>>, <<>>, EmptyString, opts, Here)
    /\ polls' = 0
    /\ UNCHANGED entryRest

\* CreateCluster, the region check: at the entry, after the defaults, or after
\* the nightly wait when the channel group is nightly. It runs on the caller's
\* context
RegionCheck ==
    /\ pc = IF opts.ChannelGroup = Nightly THEN "region" ELSE "start"
    /\ \E listOk \in CommandOutcomes(cancelled) :
          LET o == entryOptions
              args == regionsArgs(o.HostedCP, o.MultiAZ)
              c == <<Call("list regions", args, listOk)>>
          IN IF regionCheck(listOk, listRegions(regionList, args), Region)
             THEN Continue("region", c, <<>>, o, NoResources(o), Here)
             ELSE Return("region", "region", c, <<>>, EmptyString, o, Here)
    /\ UNCHANGED <<polls, entryRest>>

\* CreateCluster, the account-roles phase
AccountRolesPhase ==
    /\ pc = "roles"
    /\ IF ~NewVersionOk(opts.Version)
       THEN Return("roles", "version", <<>>, <<>>, EmptyString, opts, Here)
       ELSE \E env \in ResolverEnvs :
               LET prefix == accountRolesPrefixOf(opts)
                   r == CreateAccountRoles(roleList, prefix, fedRamp, env)
                   w == World(stacks, oidcList, r.list)
                   rq == RequestsOf(r.calls, "create account-roles",
                                    accountRolesRequest(opts.ChannelGroup))
               IN IF r.res.err
                  THEN Return("roles", "account roles", r.calls, rq, EmptyString, opts, w)
                  ELSE IF r.res.isNil
                  THEN \* `*accountRoles` dereferences a nil pointer
                       /\ pc' = "panic"
                       /\ calls' = calls \o r.calls
                       /\ roleList' = r.list
                       /\ sent' = sent \o rq
                       /\ UNCHANGED <<opts, resources, trace, stacks, oidcList,
                                      ret, compensated, logged>>
                  ELSE Continue("roles", r.calls, rq,
                                [opts EXCEPT !.accountRoles = r.res.roles],
                                IF ~opts.UseDefaultAccountRolesPrefix
                                THEN [resources EXCEPT !.accountRolesPrefix = prefix]
                                ELSE resources,
                                w)
    /\ UNCHANGED <<fedRamp, opts0, clusterUp, polls, rcalls, rprefix,
                   cancelled, observed, deleteVars>>

\* CreateCluster, the OIDC config phase
OidcPhase ==
    /\ pc = "oidc"
    /\ \E env \in OidcEnvs :
          LET r == CreateOIDCConfig(oidcList, opts.ClusterName,
                                    opts.accountRoles.installerRoleARN, fedRamp, env)
              o == [opts EXCEPT !.OidcConfigID = r.ID]
              w == World(stacks, r.list, roleList)
          IN IF r.err
             THEN Fail("oidc", "oidc config", r.calls, <<>>, o, w)
             ELSE Continue("oidc", r.calls, <<>>, o,
                           [resources EXCEPT !.oidcConfigID = r.ID], w)
    /\ UNCHANGED <<fedRamp, opts0, clusterUp, polls, rcalls, rprefix,
                   cancelled, observed, deleteVars>>

\* CreateCluster, the network stack phase
VpcPhase ==
    /\ pc = "vpc"
    /\ \E env \in VpcEnvs :
          LET r == createVPC(stacks, opts.ClusterName, env)
              w == World(r.stacks, oidcList, roleList)
              rq == RequestsOf(r.calls, "create vpc",
                               Request("create vpc", opts.ClusterName, Region,
                                       opts.WorkingDir))
          IN IF r.err
             THEN Fail("vpc", "vpc", r.calls, rq, opts, w)
             ELSE Continue("vpc", r.calls, rq,
                           [opts EXCEPT !.SubnetIDs =
                                PrivateSubnet \o <<",">> \o PublicSubnet],
                           [resources EXCEPT !.createdVPC = TRUE], w)
    /\ UNCHANGED <<fedRamp, opts0, clusterUp, polls, rcalls, rprefix,
                   cancelled, observed, deleteVars>>

\* CreateCluster, the call of createCluster
CreatePhase ==
    /\ pc = "create"
    /\ \E env \in CreateEnvs :
          LET r == createCluster(opts, env)
          IN /\ clusterUp' = (clusterUp \/ r.up)
             /\ IF r.err # "none"
                THEN Fail("create", r.err, r.calls, r.sent, r.options, Here)
                ELSE Continue("create", r.calls, r.sent, r.options, resources, Here)
    /\ UNCHANGED <<fedRamp, opts0, polls, rcalls, rprefix,
                   cancelled, observed, deleteVars>>

\* what one poll of the install wait can observe: "error" is a failed state
\* query, which is all a query on a cancelled context can be; "no status" is
\* the output of a successful query that has no status object
InstallObservations(isCancelled) ==
    IF isCancelled THEN {"error"} ELSE {"ready", "pending", "error", "no status"}

\* waitForClusterToBeInstalled, one poll
InstallPoll ==
    /\ pc = "install"
    /\ polls < MaxPolls
    /\ \E out \in InstallObservations(cancelled) :
          LET c == <<Call("describe cluster", ClusterID(opts.ClusterName), out # "error")>>
          IN /\ observed' = Append(observed, out)
             /\ CASE out = "ready" ->
                       /\ Continue("install", c, <<>>, opts, resources, Here)
                       /\ polls' = polls + 1
                  [] out = "pending" ->
                       /\ calls' = calls \o c
                       /\ polls' = polls + 1
                       /\ UNCHANGED <<pc, opts, resources, trace, stacks, oidcList,
                                      roleList, ret, compensated, logged, sent>>
                  [] out = "no status" ->
                       \* the type assertion on output["status"] panics
                       /\ pc' = "panic"
                       /\ calls' = calls \o c
                       /\ polls' = polls + 1
                       /\ UNCHANGED <<opts, resources, trace, stacks, oidcList,
                                      roleList, ret, compensated, logged, sent>>
                  [] OTHER ->
                       /\ Return("install", "install", c, <<>>, ClusterID(opts.ClusterName),
                                 opts, Here)
                       /\ polls' = polls + 1
    /\ UNCHANGED <<fedRamp, opts0, clusterUp, rcalls, rprefix, cancelled, deleteVars>>

\* waitForClusterToBeInstalled, the install timeout elapses
InstallTimeout ==
    /\ pc = "install"
    /\ polls = MaxPolls
    /\ Return("install", "install timeout", <<>>, <<>>, ClusterID(opts.ClusterName), opts, Here)
    /\ UNCHANGED <<fedRamp, opts0, clusterUp, polls, rcalls, rprefix,
                   cancelled, observed, deleteVars>>

\* the job whose completion OSDClusterHealthy waits for
HealthCheckJob == <<"osd-cluster-ready">>

\* how the health check of CreateCluster can start: the kubeconfig request
\* fails, the kubeconfig file cannot be written, the client cannot be built,
\* the cluster lookup of a hosted control plane or the get of the health
\* check job of a classic cluster fails, or the health wait begins
HealthOutcomes(hostedCP) ==
    {"kubeconfig", "write", "client", "wait"}
    \cup (IF hostedCP THEN {"locate"} ELSE {"job"})

\* CreateCluster, the start of the health check: KubeconfigFile,
\* NewFromKubeconfig, and what waitForClusterToBeHealthy does before its wait.
\* The wait starts with an interval in which no request is made
HealthCheck ==
    /\ pc = "health"
    /\ \E out \in HealthOutcomes(opts.HostedCP) :
          LET id == ClusterID(opts.ClusterName)
              k == <<Call("kubeconfig", id, out # "kubeconfig")>>
              f == k \o <<IF opts.HostedCP
                          THEN Call("find cluster", opts.ClusterName, out # "locate")
                          ELSE Call("get job", HealthCheckJob, out # "job")>>
          IN CASE out \in {"kubeconfig", "write"} ->
                    /\ Return("health", "kubeconfig", k, <<>>, id, opts, Here)
                    /\ UNCHANGED polls
               [] out = "client" ->
                    /\ Return("health", "client", k, <<>>, id, opts, Here)
                    /\ UNCHANGED polls
               [] out \in {"locate", "job"} ->
                    /\ Return("health", "health", f, <<>>, id, opts, Here)
                    /\ UNCHANGED polls
               [] OTHER ->
                    /\ pc' = "health-wait"
                    /\ polls' = 0
                    /\ calls' = calls \o f
                    /\ UNCHANGED <<opts, resources, trace, stacks, oidcList, roleList,
                                   ret, compensated, logged, sent>>
    /\ UNCHANGED <<fedRamp, opts0, clusterUp, rcalls, rprefix,
                   cancelled, observed, deleteVars>>

\* what one poll of the health wait can observe. HCPClusterHealthy lists the
\* nodes on the caller's context: "api timeout" is a listing that timed out,
\* which the condition takes as not ready yet, "error" any other failed
\* listing, which is all a listing on a cancelled context can be. The
\* condition of OSDClusterHealthy gets the job on a context of its own
HealthObservations(hostedCP, isCancelled) ==
    IF hostedCP
    THEN IF isCancelled THEN {"error"}
         ELSE {"ready", "not ready", "api timeout", "error"}
    ELSE {"ready", "not ready", "error"}

\* OSDClusterHealthy after a failed wait: the pods of the job are listed and
\* the log of the one pod is fetched and written, on the caller's context;
\* each request is made when the one before it succeeded
HealthLogs(hostedCP, isCancelled) ==
    IF hostedCP THEN {<<>>}
    ELSE {<<Call("list pods", HealthCheckJob, FALSE)>>}
         \cup (IF isCancelled THEN {}
               ELSE {<<Call("list pods", HealthCheckJob, TRUE)>>,
                     <<Call("list pods", HealthCheckJob, TRUE),
                       Call("pod logs", HealthCheckJob, FALSE)>>,
                     <<Call("list pods", HealthCheckJob, TRUE),
                       Call("pod logs", HealthCheckJob, TRUE)>>})

\* HCPClusterHealthy and OSDClusterHealthy, one poll of the health wait
HealthPoll ==
    /\ pc = "health-wait"
    /\ polls < MaxPolls
    /\ \E out \in HealthObservations(opts.HostedCP, cancelled) :
          LET c == <<Call(IF opts.HostedCP THEN "list nodes" ELSE "get job",
                          IF opts.HostedCP THEN opts.ClusterName ELSE HealthCheckJob,
                          out \notin {"api timeout", "error"})>>
          IN /\ polls' = polls + 1
             /\ CASE out = "ready" -> Continue("health", c, <<>>, opts, resources, Here)
                  [] out = "error" ->
                       \E l \in HealthLogs(opts.HostedCP, cancelled) :
                           Return("health", "health", c \o l, <<>>,
                                  ClusterID(opts.ClusterName), opts, Here)
                  [] OTHER ->
                       /\ calls' = calls \o c
                       /\ UNCHANGED <<pc, opts, resources, trace, stacks, oidcList,
                                      roleList, ret, compensated, logged, sent>>
    /\ UNCHANGED <<fedRamp, opts0, clusterUp, rcalls, rprefix,
                   cancelled, observed, deleteVars>>

\* the timeout of the health wait elapses
HealthTimeout ==
    /\ pc = "health-wait"
    /\ polls = MaxPolls
    /\ \E l \in HealthLogs(opts.HostedCP, cancelled) :
          Return("health", "health timeout", l, <<>>, ClusterID(opts.ClusterName),
                 opts, Here)
    /\ UNCHANGED <<fedRamp, opts0, clusterUp, polls, rcalls, rprefix,
                   cancelled, observed, deleteVars>>

\* the caller cancels the context while the operation is in a wait loop
Cancel ==
    /\ pc \in {"nightly", "install", "health-wait", "delete-wait"}
    /\ ~cancelled
    /\ cancelled' = TRUE
    /\ UNCHANGED <<pc, fedRamp, opts0, opts, resources, roleList, oidcList, stacks,
                   clusterUp, calls, trace, compensated, logged, ret, polls, rcalls,
                   rprefix, observed, sent, deleteVars>>

Next ==
    \/ NightlyWait
    \/ NightlyPoll
    \/ NightlyTimeout
    \/ RegionCheck
    \/ AccountRolesPhase
    \/ OidcPhase
    \/ VpcPhase
    \/ CreatePhase
    \/ InstallPoll
    \/ InstallTimeout
    \/ HealthCheck
    \/ HealthPoll
    \/ HealthTimeout
    \/ Cancel

Spec == Init /\ [][Next]_vars

-----------------------------------------------------------------------------
(* CreateCluster for a hosted control plane request that supplies neither   *)
(* an OIDC config id nor subnets, so that every phase of the saga applies   *)

WorkingDirs == {EmptyString, <<"work">>}

HostedInputs ==
    [HostedCP : {TRUE}, STS : {FALSE}, PrivateLink : {FALSE},
     SkipHealthCheck : BOOLEAN, UseDefaultAccountRolesPrefix : BOOLEAN,
     ClusterName : {Demo}, Version : {GoodVersion},
     ChannelGroup : ChannelGroups \cup {Nightly},
     OidcConfigID : {EmptyString}, SubnetIDs : {EmptyString},
     accountRoles : {EmptyRoles},
     MultiAZ : {FALSE}, EnableAutoscaling : {FALSE},
     Replicas : {0}, MinReplicas : {0}, MaxReplicas : {0},
     WorkingDir : WorkingDirs]

InitHosted ==
    /\ pc = "start"
    /\ fedRamp \in BOOLEAN
    /\ opts0 \in HostedInputs
    /\ opts = opts0
    /\ resources = NoResources(opts0)
    /\ roleList \in InitRoleLists
    /\ oidcList \in InitOidcLists
    /\ stacks = {}
    /\ clusterUp = FALSE
    /\ calls = <<>>
    /\ trace = <<>>
    /\ compensated = 0
    /\ logged = <<>>
    /\ ret = NoReturn
    /\ polls = 0
    /\ rcalls = <<>>
    /\ rprefix = EmptyString
    /\ cancelled = FALSE
    /\ observed = <<>>
    /\ dopts0 = IdleDeleteOptions
    /\ dopts = dopts0
    /\ cluster = NoCluster
    /\ sent = <<>>
    /\ regionList \in RegionLists
    /\ hin = NoInput
    /\ hout = NoOutput
    /\ changes = 0

SpecHosted == InitHosted /\ [][Next]_vars

-----------------------------------------------------------------------------
(* The same request in an account whose role inventory is consistent: it    *)
(* holds no role of the caller's prefixes, or the complete role set that an *)
(* earlier CreateAccountRoles call of this provider created                 *)

ConsistentRoleLists(fed) ==
    { <<>>, createdRoleSet(Demo, fed), createdRoleSet(DefaultPrefix414, fed) }

InitHappy ==
    /\ pc = "start"
    /\ fedRamp \in BOOLEAN
    /\ opts0 \in HostedInputs
    /\ opts = opts0
    /\ resources = NoResources(opts0)
    /\ roleList \in ConsistentRoleLists(fedRamp)
    /\ oidcList \in InitOidcLists
    /\ stacks = {}
    /\ clusterUp = FALSE
    /\ calls = <<>>
    /\ trace = <<>>
    /\ compensated = 0
    /\ logged = <<>>
    /\ ret = NoReturn
    /\ polls = 0
    /\ rcalls = <<>>
    /\ rprefix = EmptyString
    /\ cancelled = FALSE
    /\ observed = <<>>
    /\ dopts0 = IdleDeleteOptions
    /\ dopts = dopts0
    /\ cluster = NoCluster
    /\ sent = <<>>
    /\ regionList \in RegionLists
    /\ hin = NoInput
    /\ hout = NoOutput
    /\ changes = 0

\* every phase is a blocking call of one thread: CreateCluster keeps running
\* until it returns
SpecHappy == InitHappy /\ [][Next]_vars /\ WF_vars(Next)

-----------------------------------------------------------------------------
(* createCluster called for a classic cluster with every combination of the *)
(* sizing options; -1 stands for the negative values of the int fields      *)

ReplicaCounts == (-1)..ReplicaBound

SizingInputs ==
    [HostedCP : {FALSE}, STS : {FALSE}, PrivateLink : {FALSE},
     SkipHealthCheck : {TRUE}, UseDefaultAccountRolesPrefix : {FALSE},
     ClusterName : {Demo}, Version : {GoodVersion}, ChannelGroup : {EmptyString},
     OidcConfigID : {EmptyString}, SubnetIDs : {EmptyString},
     accountRoles : {EmptyRoles},
     MultiAZ : BOOLEAN, EnableAutoscaling : BOOLEAN,
     Replicas : ReplicaCounts, MinReplicas : ReplicaCounts,
     MaxReplicas : ReplicaCounts,
     WorkingDir : {TempDir}]

\* CreateCluster has passed the region check and stands before createCluster
InitSizing ==
    /\ pc = "create"
    /\ fedRamp = FALSE
    /\ opts0 \in SizingInputs
    /\ opts = opts0
    /\ resources = NoResources(opts0)
    /\ roleList = <<>>
    /\ oidcList = <<>>
    /\ stacks = {}
    /\ clusterUp = FALSE
    /\ calls = <<Call("list regions", regionsArgs(opts0.HostedCP, opts0.MultiAZ), TRUE)>>
    /\ trace = <<Step("region", TRUE, "none")>>
    /\ compensated = 0
    /\ logged = <<>>
    /\ ret = NoReturn
    /\ polls = 0
    /\ rcalls = <<>>
    /\ rprefix = EmptyString
    /\ cancelled = FALSE
    /\ observed = <<>>
    /\ dopts0 = IdleDeleteOptions
    /\ dopts = dopts0
    /\ cluster = NoCluster
    /\ sent = <<>>
    /\ regionList = <<RegionEntry(Region, TRUE, TRUE, TRUE)>>
    /\ hin = NoInput
    /\ hout = NoOutput
    /\ changes = 0

NextSizing == CreatePhase

SpecSizing == InitSizing /\ [][NextSizing]_vars

-----------------------------------------------------------------------------
(* The account-role resolver called repeatedly, by callers other than       *)
(* CreateCluster, while the role inventory may change between the calls     *)

ResolverPrefixes == {Demo, DefaultPrefix414}

IdleOptions ==
    [HostedCP |-> FALSE, STS |-> FALSE, PrivateLink |-> FALSE,
     SkipHealthCheck |-> FALSE, UseDefaultAccountRolesPrefix |-> FALSE,
     ClusterName |-> Demo, Version |-> GoodVersion, ChannelGroup |-> EmptyString,
     OidcConfigID |-> EmptyString, SubnetIDs |-> EmptyString,
     accountRoles |-> EmptyRoles,
     MultiAZ |-> FALSE, EnableAutoscaling |-> FALSE,
     Replicas |-> 0, MinReplicas |-> 0, MaxReplicas |-> 0,
     WorkingDir |-> EmptyString]

InitResolver ==
    /\ pc = "resolver"
    /\ fedRamp \in BOOLEAN
    /\ opts0 = IdleOptions
    /\ opts = opts0
    /\ resources = NoResources(opts0)
    /\ roleList \in InitRoleLists
    /\ oidcList = <<>>
    /\ stacks = {}
    /\ clusterUp = FALSE
    /\ calls = <<>>
    /\ trace = <<>>
    /\ compensated = 0
    /\ logged = <<>>
    /\ ret = NoReturn
    /\ polls = 0
    /\ rcalls = <<>>
    /\ rprefix \in ResolverPrefixes
    /\ cancelled = FALSE
    /\ observed = <<>>
    /\ dopts0 = IdleDeleteOptions
    /\ dopts = dopts0
    /\ cluster = NoCluster
    /\ sent = <<>>
    /\ regionList = <<>>
    /\ hin = NoInput
    /\ hout = NoOutput
    /\ changes = 0

\* the harness record of the CreateAccountRoles call in flight: the inventory
\* when it started and the requests it has made
InFlight(before, cs) == [fn |-> "CreateAccountRoles", before |-> before, calls |-> cs]

\* the call in flight returns res after the requests cs
ResolveReturn(res, before, after, cs) ==
    /\ pc' = "resolver"
    /\ rcalls' = Append(rcalls, [res |-> res, calls |-> cs,
                                  before |-> before, after |-> after])
    /\ hin' = NoInput

\* what no step of a resolver call changes
resolverVars ==
    <<fedRamp, opts0, opts, resources, oidcList, stacks, clusterUp, trace,
      compensated, logged, ret, polls, rprefix, cancelled, observed, sent,
      dopts0, dopts, cluster, regionList, hout>>

\* what a request of a resolver call leaves alone
resolverRest == <<changes, resolverVars>>

\* a resolver call that skips the first getAccountRoles and goes on to create
ResolveGetNoLookup ==
    /\ pc = "resolver"
    /\ Len(rcalls) < MaxResolveCalls
    /\ pc' = "resolver-create"
    /\ hin' = InFlight(roleList, <<>>)
    /\ UNCHANGED <<calls, rcalls, roleList, resolverRest>>

\* CreateAccountRoles(rprefix, version, channelGroup), the first getAccountRoles
ResolveGet ==
    /\ pc = "resolver"
    /\ Len(rcalls) < MaxResolveCalls
    /\ \E listOk \in BOOLEAN :
          LET first == getAccountRoles(listOk, roleList, rprefix, fedRamp)
              c1 == <<Call("list account-roles", rprefix, listOk)>>
          IN /\ calls' = calls \o c1
             /\ IF first.err
                THEN ResolveReturn(RolesResult(TRUE, TRUE, EmptyRoles), roleList, roleList, c1)
                ELSE IF first.isNil
                THEN /\ pc' = "resolver-create"
                     /\ hin' = InFlight(roleList, c1)
                     /\ UNCHANGED rcalls
                ELSE ResolveReturn(first, roleList, roleList, c1)
    /\ UNCHANGED <<roleList, resolverRest>>

\* CreateAccountRoles, `rosa create account-roles` after a get that found
\* nothing; "lag" is a command that succeeded without the roles being listed
ResolveCreate ==
    /\ pc = "resolver-create"
    /\ \E out \in {"fail", "ok", "lag"} :
          LET c2 == Append(hin.calls, Call("create account-roles", rprefix, out # "fail"))
          IN /\ calls' = Append(calls, Call("create account-roles", rprefix, out # "fail"))
             /\ roleList' = IF out = "ok"
                            THEN withCreatedRoles(roleList, rprefix, fedRamp)
                            ELSE roleList
             /\ IF out = "fail"
                THEN ResolveReturn(RolesResult(TRUE, TRUE, EmptyRoles), hin.before, roleList, c2)
                ELSE /\ pc' = "resolver-get-created"
                     /\ hin' = InFlight(hin.before, c2)
                     /\ UNCHANGED rcalls
    /\ UNCHANGED resolverRest

\* CreateAccountRoles, the getAccountRoles after the create
ResolveGetCreated ==
    /\ pc = "resolver-get-created"
    /\ \E listOk \in BOOLEAN :
          LET second == getAccountRoles(listOk, roleList, rprefix, fedRamp)
              c == Call("list account-roles", rprefix, listOk)
          IN /\ calls' = Append(calls, c)
             /\ ResolveReturn(IF second.err THEN RolesResult(TRUE, TRUE, EmptyRoles)
                               ELSE second,
                              hin.before, roleList, Append(hin.calls, c))
    /\ UNCHANGED <<roleList, resolverRest>>

\* collaborator: somebody else creates or deletes account roles, between two
\* calls of the resolver or between two requests of one call
InventoryChange ==
    /\ pc \in {"resolver", "resolver-create", "resolver-get-created"}
    /\ Len(rcalls) < MaxResolveCalls
    /\ changes < MaxInventoryChanges
    /\ changes' = changes + 1
    /\ \E l \in InitRoleLists : l # roleList /\ roleList' = l
    /\ UNCHANGED <<pc, calls, rcalls, hin, resolverVars>>

NextResolver == ResolveGet \/ ResolveCreate \/ ResolveGetCreated \/ InventoryChange

SpecResolver == InitResolver /\ [][NextResolver]_vars

-----------------------------------------------------------------------------
(* The OIDC config resolver called repeatedly and sequentially with one     *)
(* prefix, by callers other than CreateCluster                              *)

OidcPrefixes == {Demo, <<"other">>}
InstallerRoleArns == {EmptyString, <<"arn:", "demo", "-Installer-Role">>}

\* the secret reference of a config created for a prefix outside a restricted
\* partition, and the configs the account can hold when the resolver is
\* called: those of InitOidcLists, and the config of the cluster "demo-2"
SecretArnOf(prefix) == createdOidcConfig(prefix, FALSE).SecretArn

OidcInventories ==
    InitOidcLists
    \cup { <<OidcConfig(<<"oidc-demo-2">>, SecretArnOf(Demo \o <<"-2">>))>>,
            <<OidcConfig(<<"oidc-demo-2">>, SecretArnOf(Demo \o <<"-2">>)),
              OidcConfig(<<"oidc-old">>, SecretArnOf(Demo))>> }

InitOidc ==
    /\ pc = "oidc-resolver"
    /\ fedRamp \in BOOLEAN
    /\ opts0 = IdleOptions
    /\ opts = opts0
    /\ resources = NoResources(opts0)
    /\ roleList = <<>>
    /\ oidcList \in OidcInventories
    /\ stacks = {}
    /\ clusterUp = FALSE
    /\ calls = <<>>
    /\ trace = <<>>
    /\ compensated = 0
    /\ logged = <<>>
    /\ ret = NoReturn
    /\ polls = 0
    /\ rcalls = <<>>
    /\ rprefix \in OidcPrefixes
    /\ cancelled = FALSE
    /\ observed = <<>>
    /\ dopts0 = IdleDeleteOptions
    /\ dopts = dopts0
    /\ cluster = NoCluster
    /\ sent = <<>>
    /\ regionList = <<>>
    /\ hin = NoInput
    /\ hout = NoOutput
    /\ changes = 0

\* one call of CreateOIDCConfig(rprefix, installerRoleArn)
ResolveOidcCall ==
    /\ pc = "oidc-resolver"
    /\ Len(rcalls) < MaxResolveCalls
    /\ \E env \in OidcEnvs, arn \in InstallerRoleArns :
          LET r == CreateOIDCConfig(oidcList, rprefix, arn, fedRamp, env)
          IN /\ rcalls' = Append(rcalls, [err |-> r.err, ID |-> r.ID, calls |-> r.calls,
                                          before |-> oidcList, after |-> r.list])
             /\ oidcList' = r.list
             /\ calls' = calls \o r.calls
    /\ UNCHANGED <<pc, fedRamp, opts0, opts, resources, roleList, stacks, clusterUp,
                   trace, compensated, logged, ret, polls, rprefix,
                   cancelled, observed, sent, deleteVars>>

NextOidc == ResolveOidcCall

SpecOidc == InitOidc /\ [][NextOidc]_vars

-----------------------------------------------------------------------------
(* DeleteCluster *)

\* setDefaultDeleteClusterOptions
setDefaultDeleteClusterOptions(o) ==
    IF o.HostedCP THEN [o EXCEPT !.STS = TRUE, !.DeleteHostedVPC = TRUE] ELSE o

\* the guards of the teardown steps of DeleteCluster
deletesOperatorRoles(o) == o.STS \/ o.PrivateLink

deletesOidcConfig(o) == (o.HostedCP \/ o.PrivateLink) /\ o.DeleteOidcConfigID

deletesVPC(o) == (o.HostedCP \/ o.PrivateLink) /\ o.DeleteHostedVPC

\* account roles are deleted whatever prefix the cluster's roles carry
deletesAccountRolesAlways(o, cl) == o.STS

deletesAccountRoles(o, cl) ==
    o.STS /\ ~Contains(cl.RoleARN, defaultAccountRolesPrefix)

\* DeleteCluster with the network stack deleted before the OIDC config
deleteStepAfterSwapped(step, o, cl) ==
    LET fromRoles == IF deletesAccountRoles(o, cl) THEN "account-roles" ELSE "done"
        fromOidcConfig == IF deletesOidcConfig(o) THEN "oidc-config" ELSE fromRoles
        fromVPC == IF deletesVPC(o) THEN "delete-vpc" ELSE fromOidcConfig
    IN CASE step = "locate" -> "delete-cluster"
         [] step = "delete-cluster" -> "delete-wait"
         [] step = "delete-wait" ->
              IF deletesOperatorRoles(o) THEN "operator-roles" ELSE fromVPC
         [] step = "operator-roles" -> "oidc-provider"
         [] step = "oidc-provider" -> fromVPC
         [] step = "delete-vpc" -> fromOidcConfig
         [] step = "oidc-config" -> fromRoles
         [] OTHER -> "done"

\* the step DeleteCluster enters after `step` returned success
deleteStepAfter(step, o, cl) ==
    LET fromRoles == IF deletesAccountRoles(o, cl) THEN "account-roles" ELSE "done"
        fromVPC == IF deletesVPC(o) THEN "delete-vpc" ELSE fromRoles
        fromOidcConfig == IF deletesOidcConfig(o) THEN "oidc-config" ELSE fromVPC
    IN CASE step = "locate" -> "delete-cluster"
         [] step = "delete-cluster" -> "delete-wait"
         [] step = "delete-wait" ->
              IF deletesOperatorRoles(o) THEN "operator-roles" ELSE fromOidcConfig
         [] step = "operator-roles" -> "oidc-provider"
         [] step = "oidc-provider" -> fromOidcConfig
         [] step = "oidc-config" -> fromVPC
         [] step = "delete-vpc" -> fromRoles
         [] OTHER -> "done"

\* deleteCluster: the request to delete the cluster
\* a delete command that is issued again when it failed
deleteClusterRetry(clusterID, ok) ==
    IF clusterID = EmptyString
    THEN [err |-> TRUE, calls |-> <<>>]
    ELSE [err |-> ~ok,
          calls |-> IF ok THEN <<Call("delete cluster", clusterID, ok)>>
                    ELSE <<Call("delete cluster", clusterID, ok),
                           Call("delete cluster", clusterID, ok)>>]

deleteCluster(clusterID, ok) ==
    IF clusterID = EmptyString
    THEN [err |-> TRUE, calls |-> <<>>]
    ELSE [err |-> ~ok, calls |-> <<Call("delete cluster", clusterID, ok)>>]

\* findCluster matches the name or the id of a cluster
DeleteClusterNames == {EmptyString, Demo, ClusterID(Demo)}

DeleteInputs ==
    [ClusterName : DeleteClusterNames, HostedCP : BOOLEAN, STS : BOOLEAN,
     PrivateLink : BOOLEAN, DeleteHostedVPC : BOOLEAN, DeleteOidcConfigID : BOOLEAN,
     oidcConfigID : {EmptyString}]

OldOidcID == <<"oidc-old">>

\* the cluster records the cluster manager can hold for the cluster "demo":
\* without STS roles, with roles of its own prefix, with roles of the shared
\* default prefix
LiveClusters ==
    [Name : {Demo}, ID : {ClusterID(Demo)},
     RoleARN : {EmptyString,
                <<"arn:">> \o Demo \o <<"-Installer-Role">>,
                <<"arn:">> \o DefaultPrefix414 \o <<"-Installer-Role">>},
     OidcConfigID : {EmptyString, OldOidcID}]

InitDelete ==
    /\ pc = "locate"
    /\ fedRamp = FALSE
    /\ opts0 = IdleOptions
    /\ opts = opts0
    /\ resources = NoResources(opts0)
    /\ roleList = createdRoleSet(Demo, FALSE) \o createdRoleSet(DefaultPrefix414, FALSE)
    /\ oidcList = <<OidcConfig(OldOidcID, <<"arn:secret:">> \o Demo)>>
    /\ stacks = {Demo}
    /\ clusterUp = TRUE
    /\ calls = <<>>
    /\ trace = <<>>
    /\ compensated = 0
    /\ logged = <<>>
    /\ ret = NoReturn
    /\ polls = 0
    /\ rcalls = <<>>
    /\ rprefix = EmptyString
    /\ cancelled = FALSE
    /\ observed = <<>>
    /\ dopts0 \in DeleteInputs
    /\ dopts = dopts0
    /\ cluster \in LiveClusters
    /\ sent = <<>>
    /\ regionList = <<>>
    /\ hin = NoInput
    /\ hout = NoOutput
    /\ changes = 0

\* what no step of DeleteCluster touches
createVars == <<fedRamp, opts0, opts, resources, compensated, logged, rcalls, rprefix,
               sent, regionList, hin, hout, changes,
                dopts0, cluster>>

\* a step succeeded: DeleteCluster continues with the next applicable step
DeleteContinue(step, newCalls, o, w) ==
    /\ pc' = deleteStepAfter(step, o, cluster)
    /\ dopts' = o
    /\ calls' = calls \o newCalls
    /\ trace' = Append(trace, Step(step, TRUE, "none"))
    /\ stacks' = w.stacks
    /\ oidcList' = w.oidcList
    /\ roleList' = w.roleList
    /\ ret' = ret

\* a step failed: DeleteCluster returns its error
DeleteReturn(step, newCalls, o) ==
    /\ pc' = "done"
    /\ dopts' = o
    /\ calls' = calls \o newCalls
    /\ trace' = Append(trace, Step(step, FALSE, step))
    /\ ret' = [ID |-> EmptyString, err |-> clusterError("delete", step)]
    /\ UNCHANGED <<stacks, oidcList, roleList>>

\* DeleteCluster, from its entry to the return of findCluster
DeleteLocate ==
    /\ pc = "locate"
    /\ \E ok \in BOOLEAN :
          LET o == setDefaultDeleteClusterOptions(dopts)
              found == ok /\ o.ClusterName \in {cluster.Name, cluster.ID}
              c == <<Call("find cluster", o.ClusterName, found)>>
          IN IF ~found
             THEN DeleteReturn("locate", c, o)
             ELSE DeleteContinue("locate", c,
                                 IF o.HostedCP \/ o.PrivateLink
                                 THEN [o EXCEPT !.oidcConfigID = cluster.OidcConfigID]
                                 ELSE o,
                                 Here)
    /\ UNCHANGED <<createVars, clusterUp, polls, observed, cancelled>>

\* DeleteCluster, the call of deleteCluster
DeleteClusterCommand ==
    /\ pc = "delete-cluster"
    /\ \E ok \in BOOLEAN :
          LET r == deleteCluster(cluster.ID, ok)
          IN IF r.err
             THEN DeleteReturn("delete-cluster", r.calls, dopts)
             ELSE DeleteContinue("delete-cluster", r.calls, dopts, Here)
    /\ UNCHANGED <<createVars, clusterUp, polls, observed, cancelled>>

\* what one poll of the delete wait can observe: the cluster is still listed,
\* the listing is empty, or the lookup failed
DeleteObservations(up) ==
    IF up THEN {"present", "absent", "error"} ELSE {"absent", "error"}

\* the deferred call of waitForClusterToBeDeleted: clusterLog requests the
\* uninstall log on the caller's context when the wait returns; its error is
\* logged and dropped
uninstallLog(clusterName, ok) == <<Call("logs uninstall", clusterName, ok)>>

\* waitForClusterToBeDeleted, one poll: the condition reports done unless
\* findCluster returned a cluster without error.  The lookup runs on the
\* context of the wait, which the caller's cancellation does not reach
DeletePoll ==
    /\ pc = "delete-wait"
    /\ polls < MaxPolls
    /\ \E out \in DeleteObservations(clusterUp), logOk \in CommandOutcomes(cancelled) :
          LET c == <<Call("poll cluster", cluster.Name, out = "present")>>
          IN /\ observed' = Append(observed, out)
             /\ polls' = polls + 1
             /\ clusterUp' = IF out = "absent" THEN FALSE ELSE clusterUp
             /\ IF out = "present"
                THEN /\ calls' = calls \o c
                     /\ UNCHANGED <<pc, dopts, trace, stacks, oidcList, roleList, ret>>
                ELSE DeleteContinue("delete-wait", c \o uninstallLog(cluster.Name, logOk),
                                    dopts, Here)
    /\ UNCHANGED <<createVars, cancelled>>

\* waitForClusterToBeDeleted, the uninstall timeout elapses
DeleteTimeout ==
    /\ pc = "delete-wait"
    /\ polls = MaxPolls
    /\ \E logOk \in CommandOutcomes(cancelled) :
          DeleteReturn("delete-wait", uninstallLog(cluster.Name, logOk), dopts)
    /\ UNCHANGED <<createVars, clusterUp, polls, observed, cancelled>>

\* DeleteCluster, the call of deleteOperatorRoles
DeleteOperatorRolesStep ==
    /\ pc = "operator-roles"
    /\ \E ok \in CommandOutcomes(cancelled) :
          LET c == <<Call("delete operator-roles", cluster.ID, ok)>>
          IN IF ~ok
             THEN DeleteReturn("operator-roles", c, dopts)
             ELSE DeleteContinue("operator-roles", c, dopts, Here)
    /\ UNCHANGED <<createVars, clusterUp, polls, observed, cancelled>>

\* DeleteCluster, the call of deleteOIDCConfigProvider
DeleteOidcProviderStep ==
    /\ pc = "oidc-provider"
    /\ \E ok \in CommandOutcomes(cancelled) :
          LET arg == IF dopts.oidcConfigID # EmptyString
                     THEN dopts.oidcConfigID ELSE cluster.ID
              c == <<Call("delete oidc-provider", arg, ok)>>
          IN IF ~ok
             THEN DeleteReturn("oidc-provider", c, dopts)
             ELSE DeleteContinue("oidc-provider", c, dopts, Here)
    /\ UNCHANGED <<createVars, clusterUp, polls, observed, cancelled>>

\* DeleteCluster, the call of DeleteOIDCConfig
DeleteOidcConfigStep ==
    /\ pc = "oidc-config"
    /\ \E ok \in CommandOutcomes(cancelled) :
          LET c == <<Call("delete oidc-config", dopts.oidcConfigID, ok)>>
          IN IF ~ok
             THEN DeleteReturn("oidc-config", c, dopts)
             ELSE DeleteContinue("oidc-config", c, dopts,
                                 World(stacks, removeOidc(oidcList, dopts.oidcConfigID),
                                       roleList))
    /\ UNCHANGED <<createVars, clusterUp, polls, observed, cancelled>>

\* DeleteCluster, the call of deleteVPC
DeleteVpcStep ==
    /\ pc = "delete-vpc"
    /\ \E ok \in CommandOutcomes(cancelled) :
          LET r == deleteVPC(stacks, cluster.Name, ok)
          IN IF r.err
             THEN DeleteReturn("delete-vpc", r.calls, dopts)
             ELSE DeleteContinue("delete-vpc", r.calls, dopts,
                                 World(r.stacks, oidcList, roleList))
    /\ UNCHANGED <<createVars, clusterUp, polls, observed, cancelled>>

\* DeleteCluster, the call of DeleteAccountRoles
DeleteAccountRolesStep ==
    /\ pc = "account-roles"
    /\ \E ok \in CommandOutcomes(cancelled) :
          LET c == <<Call("delete account-roles", dopts.ClusterName, ok)>>
          IN IF ~ok
             THEN DeleteReturn("account-roles", c, dopts)
             ELSE DeleteContinue("account-roles", c, dopts,
                                 World(stacks, oidcList,
                                       removeRoles(roleList, dopts.ClusterName)))
    /\ UNCHANGED <<createVars, clusterUp, polls, observed, cancelled>>

NextDelete ==
    \/ DeleteLocate
    \/ DeleteClusterCommand
    \/ DeletePoll
    \/ DeleteTimeout
    \/ DeleteOperatorRolesStep
    \/ DeleteOidcProviderStep
    \/ DeleteOidcConfigStep
    \/ DeleteVpcStep
    \/ DeleteAccountRolesStep
    \/ Cancel

SpecDelete == InitDelete /\ [][NextDelete]_vars

-----------------------------------------------------------------------------
(* One execution of either operation of the provider                        *)

InitLifecycle == Init \/ InitDelete

NextLifecycle == Next \/ NextDelete

SpecLifecycle == InitLifecycle /\ [][NextLifecycle]_vars

-----------------------------------------------------------------------------
(* Provider.Versions: the version listing filtered by semver constraints    *)

\* the result of Versions: a nil list is the empty list
VersionsResult(err, list) == [err |-> err, list |-> list]

\* the inner loop of Versions: every candidate is parsed and, when it satisfies
\* the constraint, appended to the versions collected so far
RECURSIVE checkAll(_, _, _)
checkAll(c, versions, acc) ==
    IF versions = <<>> THEN VersionsResult(FALSE, acc)
    ELSE IF ~NewVersionOk(Head(versions).RawID)
    THEN VersionsResult(TRUE, <<>>)
    ELSE checkAll(c, Tail(versions),
                  IF Check(c, Head(versions).RawID)
                  THEN Append(acc, Head(versions)) ELSE acc)

\* the outer loop of Versions, over the constraints
RECURSIVE filterLoop(_, _, _)
filterLoop(constraints, versions, acc) ==
    IF constraints = <<>> THEN VersionsResult(FALSE, acc)
    ELSE IF ~NewConstraintOk(Head(constraints))
    THEN VersionsResult(TRUE, <<>>)
    ELSE LET pass == checkAll(Head(constraints), versions, acc)
         IN IF pass.err THEN pass
            ELSE filterLoop(Tail(constraints), versions, pass.list)

\* the inner loop that passes over a candidate that does not parse
RECURSIVE checkAllSkipping(_, _, _)
checkAllSkipping(c, versions, acc) ==
    IF versions = <<>> THEN VersionsResult(FALSE, acc)
    ELSE IF ~NewVersionOk(Head(versions).RawID)
    THEN checkAllSkipping(c, Tail(versions), acc)
    ELSE checkAllSkipping(c, Tail(versions),
                  IF Check(c, Head(versions).RawID)
                  THEN Append(acc, Head(versions)) ELSE acc)

RECURSIVE filterLoopSkipping(_, _, _)
filterLoopSkipping(constraints, versions, acc) ==
    IF constraints = <<>> THEN VersionsResult(FALSE, acc)
    ELSE IF ~NewConstraintOk(Head(constraints))
    THEN VersionsResult(TRUE, <<>>)
    ELSE filterLoopSkipping(Tail(constraints), versions,
                            checkAllSkipping(Head(constraints), versions, acc).list)

\* a filter that skips the candidates that do not parse
FilterVersionsSkipping(versions, constraints) ==
    IF Len(constraints) > 0
    THEN filterLoopSkipping(constraints, versions, <<>>)
    ELSE VersionsResult(FALSE, versions)

\* Versions, after the listing was obtained
FilterVersions(versions, constraints) ==
    IF Len(constraints) > 0
    THEN filterLoop(constraints, versions, <<>>)
    ELSE VersionsResult(FALSE, versions)

RosaVersion(rawID) == [RawID |-> rawID]

RawIDs ==
    {<<"4", "12", "0">>, <<"4", "13", "1">>, <<"4", "14", "0">>,
     <<"4", "14", "3", "-nightly">>, <<"junk">>}

ConstraintStrings ==
    {<<"~", "4", "13">>, <<">=", "4", "13", "0">>, <<"<", "4", "13">>, <<"junk">>,
     <<"4", "13", "1">>, <<"=", "4", "13">>, <<"^", "4", "12">>,
     <<"4", "12", " - ", "4", "13">>,
     <<"<", "4", "13", "||", ">=", "4", "14", "0", "-nightly">>}

\* the sequences over S of length at most n
SeqsUpTo(S, n) == UNION {[1..k -> S] : k \in 0..n}

\* a listing names a version once
VersionLists ==
    {[i \in 1..Len(l) |-> RosaVersion(l[i])] :
        l \in {m \in SeqsUpTo(RawIDs, MaxVersions) :
                  \A i, j \in 1..Len(m) : i # j => m[i] # m[j]}}

InitVersions ==
    /\ pc = "versions"
    /\ fedRamp = FALSE
    /\ opts0 = IdleOptions
    /\ opts = opts0
    /\ resources = NoResources(opts0)
    /\ roleList = <<>>
    /\ oidcList = <<>>
    /\ stacks = {}
    /\ clusterUp = FALSE
    /\ calls = <<>>
    /\ trace = <<>>
    /\ compensated = 0
    /\ logged = <<>>
    /\ ret = NoReturn
    /\ polls = 0
    /\ rcalls = <<>>
    /\ rprefix = EmptyString
    /\ cancelled = FALSE
    /\ observed = <<>>
    /\ dopts0 = IdleDeleteOptions
    /\ dopts = dopts0
    /\ cluster = NoCluster
    /\ sent = <<>>
    /\ regionList = <<>>
    /\ hin \in [fn : {"Versions"}, versions : VersionLists,
                constraints : SeqsUpTo(ConstraintStrings, MaxConstraints)]
    /\ hout = NoOutput
    /\ changes = 0

\* what no function harness touches
sagaVars == <<fedRamp, opts0, opts, resources, roleList, oidcList, stacks, clusterUp,
              trace, compensated, logged, ret, polls, rcalls, rprefix, cancelled,
              observed, dopts0, dopts, cluster, sent, regionList, changes>>

\* one call of Versions(channelGroup, hostedCP, constraints...)
VersionsCall ==
    /\ pc = "versions"
    /\ \E listOk \in BOOLEAN :
          /\ calls' = Append(calls, Call("list versions", <<"stable">>, listOk))
          /\ hout' = IF listOk
                     THEN [fn |-> "Versions"]
                          @@ FilterVersions(hin.versions, hin.constraints)
                     ELSE [fn |-> "Versions"] @@ VersionsResult(TRUE, <<>>)
    /\ pc' = "versions-done"
    /\ UNCHANGED <<sagaVars, hin>>

NextVersions == VersionsCall

SpecVersions == InitVersions /\ [][NextVersions]_vars

-----------------------------------------------------------------------------
(* osd.Provider.addGateAgreement: the version gate agreement of an upgrade  *)

versionGateLabel == "api.openshift.com/gate-ocp"

VersionGate(id, prefix, label) ==
    [ID |-> id, VersionRawIDPrefix |-> prefix, Label |-> label]

\* getVersionGateID, on the listing of version gates: the id of the first gate
\* for the version that carries the gate label
RECURSIVE getVersionGateID(_, _)
getVersionGateID(gates, version) ==
    IF gates = <<>> THEN [err |-> TRUE, ID |-> EmptyString]
    ELSE IF Head(gates).VersionRawIDPrefix = version
            /\ Head(gates).Label = versionGateLabel
    THEN [err |-> FALSE, ID |-> Head(gates).ID]
    ELSE getVersionGateID(Tail(gates), version)

GateEnvs == [gates : BOOLEAN, agreements : BOOLEAN, get : BOOLEAN, add : BOOLEAN]

\* Version.Minor
Minor(v) == NewVersion(v)[2]

\* the result of addGateAgreement: its error, its requests and the gate
\* agreements of the cluster afterwards
GateResult(err, cs, agreed) == [err |-> err, calls |-> cs, agreed |-> agreed]

\* addGateAgreement
addGateAgreement(clusterID, currentVersion, upgradeVersion, gates, agreed, env) ==
    IF Minor(currentVersion) > Minor(upgradeVersion)
    THEN GateResult(FALSE, <<>>, agreed)
    ELSE LET gate == getVersionGateID(gates, majorMinor(upgradeVersion))
             c1 == <<Call("list version-gates", clusterID, env.gates)>>
             c2 == c1 \o <<Call("list gate-agreements", clusterID, env.agreements)>>
             c3 == c2 \o <<Call("get version-gate", gate.ID, env.get)>>
             c4 == c3 \o <<Call("add gate-agreement", gate.ID, env.add)>>
         IN IF ~env.gates \/ gate.err THEN GateResult(TRUE, c1, agreed)
            ELSE IF ~env.agreements THEN GateResult(TRUE, c2, agreed)
            ELSE IF gate.ID \in agreed THEN GateResult(FALSE, c2, agreed)
            ELSE IF ~env.get THEN GateResult(TRUE, c3, agreed)
            ELSE IF ~env.add THEN GateResult(TRUE, c4, agreed)
            ELSE GateResult(FALSE, c4, agreed \cup {gate.ID})

Gate413 == VersionGate(<<"gate-4.13">>, <<"4", ".", "13">>, versionGateLabel)
Gate414 == VersionGate(<<"gate-4.14">>, <<"4", ".", "14">>, versionGateLabel)
Gate414Sts == VersionGate(<<"gate-4.14-sts">>, <<"4", ".", "14">>, "api.openshift.com/gate-sts")

GateLists == { <<>>, <<Gate414>>, <<Gate413, Gate414>>, <<Gate414Sts, Gate414>>,
               <<Gate414Sts>> }

UpgradeVersions == {<<"4", "13", "1">>, <<"4", "14", "0">>, <<"4", "14", "3">>}

InitUpgrade ==
    /\ pc = "gate"
    /\ fedRamp = FALSE
    /\ opts0 = IdleOptions
    /\ opts = opts0
    /\ resources = NoResources(opts0)
    /\ roleList = <<>>
    /\ oidcList = <<>>
    /\ stacks = {}
    /\ clusterUp = FALSE
    /\ calls = <<>>
    /\ trace = <<>>
    /\ compensated = 0
    /\ logged = <<>>
    /\ ret = NoReturn
    /\ polls = 0
    /\ rcalls = <<>>
    /\ rprefix = EmptyString
    /\ cancelled = FALSE
    /\ observed = <<>>
    /\ dopts0 = IdleDeleteOptions
    /\ dopts = dopts0
    /\ cluster = NoCluster
    /\ sent = <<>>
    /\ regionList = <<>>
    /\ hin \in [fn : {"addGateAgreement"}, currentVersion : UpgradeVersions,
                upgradeVersion : UpgradeVersions, gates : GateLists,
                agreed : {{}, {Gate414.ID}}]
    /\ hout = NoOutput
    /\ changes = 0

\* OCMUpgrade, the call of addGateAgreement
GateAgreementCall ==
    /\ pc = "gate"
    /\ \E env \in GateEnvs :
          LET r == addGateAgreement(ClusterID(Demo), hin.currentVersion,
                                    hin.upgradeVersion, hin.gates, hin.agreed, env)
          IN /\ calls' = calls \o r.calls
             /\ hout' = [fn |-> "addGateAgreement", err |-> r.err, agreed |-> r.agreed]
    /\ pc' = "gate-done"
    /\ UNCHANGED <<sagaVars, hin>>

NextUpgrade == GateAgreementCall

SpecUpgrade == InitUpgrade /\ [][NextUpgrade]_vars

-----------------------------------------------------------------------------
(* CreateCluster called again after it returned an error.  CreateCluster    *)
(* takes a pointer to the options and writes the resolved account roles,    *)
(* OIDC config id and subnet ids into the caller's record                   *)

RetryInputs ==
    [HostedCP : {TRUE}, STS : {FALSE}, PrivateLink : {FALSE},
     SkipHealthCheck : BOOLEAN, UseDefaultAccountRolesPrefix : {FALSE},
     ClusterName : {Demo}, Version : {GoodVersion}, ChannelGroup : {EmptyString, Nightly},
     OidcConfigID : {EmptyString}, SubnetIDs : {EmptyString},
     accountRoles : {EmptyRoles},
     MultiAZ : {FALSE}, EnableAutoscaling : {FALSE},
     Replicas : {0}, MinReplicas : {0}, MaxReplicas : {0},
     WorkingDir : {EmptyString}]

InitRetry ==
    /\ pc = "start"
    /\ fedRamp = FALSE
    /\ opts0 \in RetryInputs
    /\ opts = opts0
    /\ resources = NoResources(opts0)
    /\ roleList \in {<<>>, createdRoleSet(Demo, FALSE)}
    /\ oidcList \in InitOidcLists
    /\ stacks = {}
    /\ clusterUp = FALSE
    /\ calls = <<>>
    /\ trace = <<>>
    /\ compensated = 0
    /\ logged = <<>>
    /\ ret = NoReturn
    /\ polls = 0
    /\ rcalls = <<>>
    /\ rprefix = EmptyString
    /\ cancelled = FALSE
    /\ observed = <<>>
    /\ dopts0 = IdleDeleteOptions
    /\ dopts = dopts0
    /\ cluster = NoCluster
    /\ sent = <<>>
    /\ regionList = <<RegionEntry(Region, TRUE, TRUE, TRUE)>>
    /\ hin = NoInput
    /\ hout = NoOutput
    /\ changes = 0

\* the number of CreateCluster calls that have made their first request: a
\* call leaves one region step, or one nightly step when it returned from
\* the nightly wait, and a call inside or just past that wait has left none
Attempts ==
    Cardinality({i \in DOMAIN trace : trace[i].phase \in {"region", "nightly"}})
    + (IF pc \in {"nightly", "region"} THEN 1 ELSE 0)

\* the caller calls CreateCluster again after an error, with the options
\* record of the failed call (as that call left it) or with a new record
CallAgain ==
    /\ pc = "done"
    /\ ret.err # NoError
    /\ Attempts < MaxAttempts
    /\ \E same \in BOOLEAN :
          /\ opts' = IF same THEN opts ELSE opts0
          /\ resources' = NoResources(IF same THEN opts ELSE opts0)
    /\ pc' = "start"
    /\ ret' = NoReturn
    /\ polls' = 0
    /\ cancelled' = FALSE
    /\ UNCHANGED <<fedRamp, opts0, roleList, oidcList, stacks, clusterUp, calls,
                   trace, compensated, logged, rcalls, rprefix, observed, sent,
                   deleteVars>>

NextRetry == Next \/ CallAgain

SpecRetry == InitRetry /\ [][NextRetry]_vars

-----------------------------------------------------------------------------
(* The account-roles phase of two CreateCluster invocations that run         *)
(* concurrently and resolve the same prefix.  CreateAccountRoles holds no   *)
(* lock: its listing, its create command and its second listing are three   *)
(* separate requests, which interleave with those of the other invocation   *)

Invocations == {1, 2}

\* the result slot of an invocation that has not returned
Pending == [returned |-> FALSE, res |-> RolesResult(FALSE, TRUE, EmptyRoles)]

Returned(res) == [returned |-> TRUE, res |-> res]

InitConcurrent ==
    /\ pc = [p \in Invocations |-> "get"]
    /\ fedRamp \in BOOLEAN
    /\ opts0 = IdleOptions
    /\ opts = opts0
    /\ resources = NoResources(opts0)
    /\ roleList \in InitRoleLists
    /\ oidcList = <<>>
    /\ stacks = {}
    /\ clusterUp = FALSE
    /\ calls = <<>>
    /\ trace = <<>>
    /\ compensated = 0
    /\ logged = <<>>
    /\ ret = NoReturn
    /\ polls = 0
    /\ rcalls = [p \in Invocations |-> Pending]
    /\ rprefix \in ResolverPrefixes
    /\ cancelled = FALSE
    /\ observed = <<>>
    /\ dopts0 = IdleDeleteOptions
    /\ dopts = dopts0
    /\ cluster = NoCluster
    /\ sent = <<>>
    /\ regionList = <<>>
    /\ hin = NoInput
    /\ hout = NoOutput
    /\ changes = 0

\* what the account-roles phase of an invocation leaves alone
resolverFrame ==
    <<fedRamp, opts0, opts, resources, oidcList, stacks, clusterUp, trace,
      compensated, logged, ret, polls, rprefix, cancelled, observed, sent, deleteVars>>

\* CreateAccountRoles of invocation p, the first getAccountRoles
GetRoles(p) ==
    /\ pc[p] = "get"
    /\ \E listOk \in BOOLEAN :
          LET first == getAccountRoles(listOk, roleList, rprefix, fedRamp)
          IN /\ calls' = Append(calls, Call("list account-roles", rprefix, listOk))
             /\ IF first.err
                THEN /\ pc' = [pc EXCEPT ![p] = "returned"]
                     /\ rcalls' = [rcalls EXCEPT
                                     ![p] = Returned(RolesResult(TRUE, TRUE, EmptyRoles))]
                ELSE IF first.isNil
                THEN /\ pc' = [pc EXCEPT ![p] = "create"]
                     /\ UNCHANGED rcalls
                ELSE /\ pc' = [pc EXCEPT ![p] = "returned"]
                     /\ rcalls' = [rcalls EXCEPT ![p] = Returned(first)]
    /\ UNCHANGED <<roleList, resolverFrame>>

\* CreateAccountRoles of invocation p, `rosa create account-roles`
CreateRoles(p) ==
    /\ pc[p] = "create"
    /\ \E out \in {"fail", "ok", "lag"} :
          /\ calls' = Append(calls, Call("create account-roles", rprefix, out # "fail"))
          /\ roleList' = IF out = "ok"
                         THEN withCreatedRoles(roleList, rprefix, fedRamp) ELSE roleList
          /\ IF out = "fail"
             THEN /\ pc' = [pc EXCEPT ![p] = "returned"]
                  /\ rcalls' = [rcalls EXCEPT
                                  ![p] = Returned(RolesResult(TRUE, TRUE, EmptyRoles))]
             ELSE /\ pc' = [pc EXCEPT ![p] = "get-created"]
                  /\ UNCHANGED rcalls
    /\ UNCHANGED resolverFrame

\* CreateAccountRoles of invocation p, the getAccountRoles after the create
GetCreatedRoles(p) ==
    /\ pc[p] = "get-created"
    /\ \E listOk \in BOOLEAN :
          LET second == getAccountRoles(listOk, roleList, rprefix, fedRamp)
          IN /\ calls' = Append(calls, Call("list account-roles", rprefix, listOk))
             /\ pc' = [pc EXCEPT ![p] = "returned"]
             /\ rcalls' = [rcalls EXCEPT
                             ![p] = Returned(IF second.err
                                             THEN RolesResult(TRUE, TRUE, EmptyRoles)
                                             ELSE second)]
    /\ UNCHANGED <<roleList, resolverFrame>>

NextConcurrent ==
    \E p \in Invocations : GetRoles(p) \/ CreateRoles(p) \/ GetCreatedRoles(p)

SpecConcurrent == InitConcurrent /\ [][NextConcurrent]_vars

-----------------------------------------------------------------------------
(* Properties *)

CallsOf(op) == {i \in DOMAIN calls : calls[i].op = op}

Count(op) == Cardinality(CallsOf(op))

TeardownOps == {"delete vpc", "delete oidc-config", "delete account-roles"}

CreateOps == {"create account-roles", "create oidc-config", "create vpc", "create cluster"}

TeardownRank(op) ==
    CASE op = "delete vpc" -> 1
      [] op = "delete oidc-config" -> 2
      [] OTHER -> 3

Teardowns == {i \in DOMAIN calls : calls[i].op \in TeardownOps}

LastStep == trace[Len(trace)]

\* CreateCluster returned because `phase` failed
FailedIn(phase) ==
    pc = "done" /\ trace # <<>> /\ LastStep.phase = phase /\ ~LastStep.ok

ValidationFailed == FailedIn("create") /\ LastStep.cause = "validation"

\* a teardown call was issued for every resource the tracker holds
TrackedTornDown ==
    /\ resources.createdVPC =>
          \E i \in CallsOf("delete vpc") : calls[i].arg = resources.clusterName
    /\ resources.oidcConfigID # EmptyString =>
          \E i \in CallsOf("delete oidc-config") : calls[i].arg = resources.oidcConfigID
    /\ resources.accountRolesPrefix # EmptyString =>
          \E i \in CallsOf("delete account-roles") :
                calls[i].arg = resources.accountRolesPrefix

\* C1: whenever compensation runs, the teardown calls are issued in the order
\* network stack, OIDC config, account roles, and every tracked resource gets
\* its teardown call, whether or not an earlier teardown failed.
C1_CompensationOrder ==
    /\ \A i, j \in Teardowns :
          i < j => TeardownRank(calls[i].op) < TeardownRank(calls[j].op)
    /\ compensated > 0 => TrackedTornDown

C1_Witness ==
    /\ compensated > 0
    /\ \E i \in CallsOf("delete vpc"), j \in CallsOf("delete oidc-config"),
          k \in CallsOf("delete account-roles") :
            i < j /\ j < k /\ ~calls[i].ok /\ ~calls[j].ok

\* C2: a CreateCluster attempt that fails after its network stack was
\* provisioned and before the cluster is created, with account roles that
\* existed before (no create request by the resolver), issues exactly one
\* network-stack teardown and no account-role teardown.
C2_ExistingRolesSurviveCompensation ==
    ( /\ FailedIn("create")
      /\ LastStep.cause \in {"validation", "create command"}
      /\ \E i \in CallsOf("create vpc") : calls[i].ok
      /\ Count("create account-roles") = 0 )
    => (Count("delete vpc") = 1 /\ Count("delete account-roles") = 0)

\* C3: an OIDC config the resolver found by lookup (no create request) is not
\* recorded in the tracker and is never deleted by the compensation.
C3_ExistingOidcNotTracked ==
    ( /\ opts0.OidcConfigID = EmptyString
      /\ \E i \in DOMAIN trace : trace[i].phase = "oidc" /\ trace[i].ok
      /\ Count("create oidc-config") = 0 )
    => (resources.oidcConfigID = EmptyString /\ Count("delete oidc-config") = 0)

LatePhases == {"oidc", "vpc", "create", "install", "health"}

\* C4: a failure of CreateCluster in any phase after the account-roles phase
\* (OIDC resolution, network provisioning, createCluster, install poll, health
\* check) runs compensation for every resource the attempt has tracked.
C4_AnyLateFailureCompensates ==
    \A phase \in LatePhases :
        FailedIn(phase) => (compensated = 1 /\ TrackedTornDown)

\* C5: when CreateCluster fails and compensation runs, the returned error is
\* the error of the failed phase wrapped with the create action, never the
\* error of a teardown.
C5_OriginalErrorReturned ==
    (pc = "done" /\ compensated > 0) =>
        /\ ret.err = clusterError("create", LastStep.cause)
        /\ ret.err.cause \notin TeardownOps

C5_Witness ==
    /\ pc = "done"
    /\ compensated > 0
    /\ logged # <<>>
    /\ ret.err.cause = "vpc"

\* C6: with a caller-supplied OIDC config id no OIDC create and no OIDC delete
\* is issued; with caller-supplied subnet ids no network-stack create and no
\* network-stack delete is issued.
C6_SuppliedResourcesUntouched ==
    /\ opts0.OidcConfigID # EmptyString =>
          /\ Count("create oidc-config") = 0
          /\ Count("delete oidc-config") = 0
          /\ opts.OidcConfigID = opts0.OidcConfigID
    /\ opts0.SubnetIDs # EmptyString =>
          /\ Count("create vpc") = 0
          /\ Count("delete vpc") = 0
          /\ opts.SubnetIDs = opts0.SubnetIDs

C6_Witness ==
    /\ opts0.OidcConfigID # EmptyString
    /\ opts0.SubnetIDs # EmptyString
    /\ compensated > 0
    /\ Count("delete account-roles") = 1
    /\ Count("create cluster") = 1

PhaseRank(phase) ==
    CASE phase = "nightly" -> 0
      [] phase = "region" -> 1
      [] phase = "roles" -> 2
      [] phase = "oidc" -> 3
      [] phase = "vpc" -> 4
      [] phase = "create" -> 5
      [] phase = "install" -> 6
      [] OTHER -> 7

CallPhase(op) ==
    CASE op = "list versions" -> 0
      [] op = "list regions" -> 1
      [] op \in {"list account-roles", "create account-roles"} -> 2
      [] op \in {"list oidc-configs", "create oidc-config"} -> 3
      [] op = "create vpc" -> 4
      [] op \in {"create cluster", "find cluster"} -> 5
      [] op = "describe cluster" -> 6
      [] OTHER -> 7

\* the phase that issued request i: the cluster lookup that follows the
\* kubeconfig request belongs to the health check
CallPhaseAt(i) ==
    IF calls[i].op = "find cluster" /\ \E k \in 1..(i - 1) : calls[k].op = "kubeconfig"
    THEN 7
    ELSE CallPhase(calls[i].op)

\* C7: the phases of CreateCluster occur in the order region check, account
\* roles, OIDC config, network stack, cluster create, install poll, health
\* check, each only when it applies; a phase starts only after the previous
\* one succeeded, so the create command is never issued after a failure.
C7_PhaseOrder ==
    /\ \A i, j \in DOMAIN trace :
          i < j => (trace[i].ok /\ PhaseRank(trace[i].phase) < PhaseRank(trace[j].phase))
    /\ \A i, j \in DOMAIN calls \ Teardowns :
          i < j => CallPhaseAt(i) <= CallPhaseAt(j)
    /\ \A j \in CallsOf("create cluster") :
          /\ \A i \in 1..(j - 1) : calls[i].ok
          /\ \A i \in DOMAIN trace : PhaseRank(trace[i].phase) < 5 => trace[i].ok
    /\ \A i \in DOMAIN trace :
          /\ trace[i].phase \in {"roles", "oidc"} => (opts.HostedCP \/ opts.STS)
          /\ trace[i].phase = "vpc" => (opts.HostedCP \/ opts.PrivateLink)
          /\ trace[i].phase = "health" => ~opts.SkipHealthCheck

C7_Witness ==
    /\ pc = "done"
    /\ Len(trace) = 7
    /\ \A i \in DOMAIN trace : trace[i].ok
    /\ ret.err = NoError

\* C8: option validation is executed before any mutating call: when it fails,
\* no create request (account roles, OIDC config, network stack, cluster) has
\* been issued in the call.
C8_ValidationBeforeAnyCreate ==
    ValidationFailed => \A op \in CreateOps : Count(op) = 0

\* C9: a validation failure of the create options never triggers
\* compensation: no teardown call (network stack, OIDC config, account roles)
\* is issued.
C9_ValidationNeverCompensates ==
    ValidationFailed => Teardowns = {}

HasCreate(cs) == \E i \in DOMAIN cs : cs[i].op = "create account-roles"

\* C10: when a resolver call returned a role set and the role inventory is
\* unchanged until the next call with the same prefix, the next call issues no
\* create request and, when its listing succeeds, returns the same ARNs.
C10_ResolverIdempotent ==
    \A i \in 1..(Len(rcalls) - 1) :
        ( /\ ~rcalls[i].res.err
          /\ ~rcalls[i].res.isNil
          /\ rcalls[i + 1].before = rcalls[i].after )
        => /\ ~HasCreate(rcalls[i + 1].calls)
           /\ rcalls[i + 1].calls[1].ok => rcalls[i + 1].res = rcalls[i].res

C10_Witness ==
    \E i \in 1..(Len(rcalls) - 1) :
        /\ HasCreate(rcalls[i].calls)
        /\ ~rcalls[i].res.err
        /\ ~rcalls[i].res.isNil
        /\ rcalls[i + 1].before = rcalls[i].after
        /\ rcalls[i + 1].res = rcalls[i].res
        /\ rcalls[i].res.roles.installerRoleARN # EmptyString

-----------------------------------------------------------------------------
(* The account-role resolver inside CreateCluster *)

\* the account-roles phase of CreateCluster just returned, after a first
\* listing that succeeded
RolesListed ==
    /\ Len(trace) = 2
    /\ trace[2].phase = "roles"
    /\ NewVersionOk(opts.Version)
    /\ Len(calls) >= 2
    /\ calls[2].op = "list account-roles"
    /\ calls[2].ok

\* what the scan of getAccountRoles finds in the current listing
Discovered ==
    scanRoles(roleList, accountRolesPrefixOf(opts), [found |-> 0, roles |-> EmptyRoles])

HostedSlotsEmpty(roles) ==
    /\ roles.hcpInstallerRoleARN = EmptyString
    /\ roles.hcpSupportRoleARN = EmptyString
    /\ roles.hcpWorkerRoleARN = EmptyString

\* C11: in a standard partition a discovered set of exactly the four
\* non-hosted-control-plane roles is rejected when the cluster requests a
\* hosted control plane and accepted when it does not.
C11_FourRolesByTopology ==
    ( /\ ~fedRamp
      /\ RolesListed
      /\ Discovered.found = fedRampRolesCount
      /\ HostedSlotsEmpty(Discovered.roles) )
    => (trace[2].ok <=> ~opts.HostedCP)

\* C12: in a restricted partition every role set the resolver returns has the
\* three hosted-control-plane slots empty.
C12_RestrictedNeverHostedRoles ==
    fedRamp => HostedSlotsEmpty(opts.accountRoles)

\* the role count the partition accepts
ValidCardinality(fed) == IF fed THEN fedRampRolesCount ELSE commercialRolesCount

\* C13: when the listing yields a non-zero number of matching roles other than
\* the valid cardinality of the partition, the resolver fails without a create
\* request and CreateCluster ends with that error, with no OIDC, network stack
\* or cluster creation.
C13_BadCardinalityFails ==
    ( /\ RolesListed
      /\ Discovered.found \notin {0, ValidCardinality(fedRamp)} )
    => /\ ~trace[2].ok
       /\ pc = "done"
       /\ ret.err = clusterError("create", "account roles")
       /\ \A op \in CreateOps : Count(op) = 0

RoleSlots(roles) ==
    {roles.controlPlaneRoleARN, roles.installerRoleARN, roles.supportRoleARN,
     roles.workerRoleARN, roles.hcpInstallerRoleARN, roles.hcpSupportRoleARN,
     roles.hcpWorkerRoleARN}

\* C14: a listed role is placed in the returned role set only if its name has
\* the prefix and its version tag equals the requested version.
C14_OnlyRequestedVersionRetained ==
    (RolesListed /\ trace[2].ok)
    => \A i \in DOMAIN roleList :
          roleList[i].RoleARN \in RoleSlots(opts.accountRoles)
          => /\ HasPrefix(roleList[i].RoleName, accountRolesPrefixOf(opts))
             /\ roleList[i].Version = majorMinor(opts.Version)

-----------------------------------------------------------------------------
(* The OIDC config resolver *)

IssuedOidcCreate(cs) == \E k \in DOMAIN cs : cs[k].op = "create oidc-config"

\* the call issued a create request that created a config whose secret
\* reference contains the prefix
CreatedPrefixedConfig(cs) ==
    /\ \E k \in DOMAIN cs : cs[k].op = "create oidc-config" /\ cs[k].ok
    /\ Contains(createdOidcConfig(rprefix, fedRamp).SecretArn, rprefix)

\* C15: the OIDC resolver looks up before it creates: a call made while a
\* config whose secret reference contains the prefix exists issues no create
\* request and, when the listing succeeds, returns the id of the first such
\* config; so once a call has created a config whose secret reference contains
\* the prefix, no later call of the sequence issues a create request.
C15_OidcLookupBeforeCreate ==
    /\ \A i \in DOMAIN rcalls :
          firstMatch(rcalls[i].before, rprefix).found
          => /\ ~IssuedOidcCreate(rcalls[i].calls)
             /\ (rcalls[i].calls # <<>> /\ rcalls[i].calls[1].ok)
                => /\ ~rcalls[i].err
                   /\ rcalls[i].ID = firstMatch(rcalls[i].before, rprefix).ID
    /\ \A i \in DOMAIN rcalls : \A j \in DOMAIN rcalls :
          (i < j /\ CreatedPrefixedConfig(rcalls[i].calls))
          => ~IssuedOidcCreate(rcalls[j].calls)

C15_Witness ==
    /\ Len(rcalls) = MaxResolveCalls
    /\ CreatedPrefixedConfig(rcalls[1].calls)
    /\ ~rcalls[1].err
    /\ \A j \in 2..Len(rcalls) :
          /\ rcalls[j].calls # <<>>
          /\ rcalls[j].calls[1].ok
          /\ rcalls[j].ID = rcalls[1].ID
          /\ ~IssuedOidcCreate(rcalls[j].calls)

-----------------------------------------------------------------------------
(* The install wait *)

InstallSteps == {i \in DOMAIN trace : trace[i].phase = "install"}

\* every poll but the last one observed a state other than "ready" without error
OnlyLastPollDecides ==
    \A k \in 1..(Len(observed) - 1) : observed[k] = "pending"

\* C16: the install wait of CreateCluster ends at most once, and then in
\* exactly one of three ways: with success, the last poll having observed
\* "ready"; with the error of a failed state query, which is the last poll;
\* with a timeout error, no poll having observed "ready".  A wait that has
\* polled and is over has ended in one of these ways.  A poll that observes
\* "ready" ends the wait with success, success is never reported without it,
\* and the number of polls never exceeds what the timeout allows.
C16_InstallWaitEndings ==
    /\ Cardinality(InstallSteps) <= 1
    /\ (observed # <<>> /\ pc # "install") => InstallSteps # {}
    /\ Len(observed) <= MaxPolls
    /\ Count("describe cluster") = Len(observed)
    /\ OnlyLastPollDecides
    /\ \A i \in InstallSteps :
          /\ trace[i].ok <=> (observed # <<>> /\ observed[Len(observed)] = "ready")
          /\ ~trace[i].ok => trace[i].cause \in {"install", "install timeout"}
          /\ trace[i].cause = "install"
             <=> (observed # <<>> /\ observed[Len(observed)] = "error")
          /\ trace[i].cause = "install timeout"
             => /\ Len(observed) = MaxPolls
                /\ \A k \in DOMAIN observed : observed[k] = "pending"
          /\ ~trace[i].ok
             => /\ pc = "done"
                /\ i = Len(trace)
                /\ ret = [ID |-> ClusterID(opts.ClusterName),
                          err |-> clusterError("create", trace[i].cause)]
    /\ (pc = "done" /\ ret.err = NoError)
       => \E k \in DOMAIN observed : observed[k] = "ready"
    /\ (\E k \in DOMAIN observed : observed[k] \in {"ready", "error"})
       => InstallSteps # {}

-----------------------------------------------------------------------------
(* DeleteCluster and cancellation *)

\* the run is a DeleteCluster invocation
DeleteRun == cluster # NoCluster

\* the steps that follow a wait loop in the normal flow
AfterWaitOps ==
    {"delete operator-roles", "delete oidc-provider", "delete oidc-config",
     "delete vpc", "delete account-roles", "kubeconfig"}

\* C17: when the caller's context is cancelled while CreateCluster or
\* DeleteCluster is in a poll loop, the operation returns an error, issues no
\* further provisioning or teardown step of the normal flow, and CreateCluster
\* runs compensation.
C17_CancelStopsAndCompensates ==
    cancelled
    => /\ pc = "done" => ret.err # NoError
       /\ DeleteRun => \A op \in AfterWaitOps : Count(op) = 0
       /\ (~DeleteRun /\ Count("kubeconfig") > 0)
          => (pc = "health-wait" \/ LastStep.phase = "health")
       /\ (~DeleteRun /\ pc = "done") => compensated = 1

DeleteSteps ==
    <<"locate", "delete-cluster", "delete-wait", "operator-roles", "oidc-provider",
      "oidc-config", "delete-vpc", "account-roles">>

DeleteRank(step) == CHOOSE k \in DOMAIN DeleteSteps : DeleteSteps[k] = step

\* the step of DeleteCluster that issues the request
DeleteCallStep(op) ==
    CASE op = "find cluster" -> "locate"
      [] op = "delete cluster" -> "delete-cluster"
      [] op \in {"poll cluster", "logs uninstall"} -> "delete-wait"
      [] op = "delete operator-roles" -> "operator-roles"
      [] op = "delete oidc-provider" -> "oidc-provider"
      [] op = "delete oidc-config" -> "oidc-config"
      [] op = "delete vpc" -> "delete-vpc"
      [] op = "delete account-roles" -> "account-roles"

DeleteApplicable(step) ==
    CASE step \in {"operator-roles", "oidc-provider"} -> deletesOperatorRoles(dopts)
      [] step = "oidc-config" -> deletesOidcConfig(dopts)
      [] step = "delete-vpc" -> deletesVPC(dopts)
      [] step = "account-roles" -> deletesAccountRoles(dopts, cluster)
      [] OTHER -> TRUE

StepsDone == {trace[i].phase : i \in DOMAIN trace}

DeleteSucceeded == pc = "done" /\ ret.err = NoError

\* C18: in every DeleteCluster execution the requests occur in the order
\* locate, cluster delete, delete polls, operator-role deletion, OIDC provider
\* deletion, OIDC config deletion, network stack deletion, account-role
\* deletion, each only when applicable; a step is issued only after every
\* earlier step succeeded, and the first failing step ends the deletion with
\* its error, no later teardown being issued.
C18_DeleteOrder ==
    /\ \A i \in DOMAIN calls : \A j \in DOMAIN calls :
          i < j =>
            LET a == DeleteRank(DeleteCallStep(calls[i].op))
                b == DeleteRank(DeleteCallStep(calls[j].op))
            IN a <= b /\ (a = b => calls[i].op = "poll cluster")
    /\ \A i \in DOMAIN trace : \A j \in DOMAIN trace :
          i < j => /\ DeleteRank(trace[i].phase) < DeleteRank(trace[j].phase)
                   /\ trace[i].ok
    /\ \A i \in DOMAIN calls : DeleteCallStep(calls[i].op) \in StepsDone \cup {pc}
    /\ \A i \in DOMAIN trace : i > 1 => DeleteApplicable(trace[i].phase)
    /\ (trace # <<>> /\ ~LastStep.ok)
       => /\ pc = "done"
          /\ ret.err = clusterError("delete", LastStep.phase)
    /\ DeleteSucceeded
       => \A k \in DOMAIN DeleteSteps :
             DeleteApplicable(DeleteSteps[k]) => DeleteSteps[k] \in StepsDone

C18_Witness ==
    /\ pc = "done"
    /\ LastStep = Step("oidc-provider", FALSE, "oidc-provider")
    /\ Count("delete operator-roles") = 1
    /\ deletesOidcConfig(dopts) /\ deletesVPC(dopts) /\ deletesAccountRoles(dopts, cluster)
    /\ Count("delete oidc-config") = 0
    /\ Count("delete vpc") = 0
    /\ Count("delete account-roles") = 0

NonHostedSTS == dopts0.STS /\ ~dopts0.HostedCP

HasMarker == Contains(cluster.RoleARN, defaultAccountRolesPrefix)

\* C19: DeleteCluster of a non-hosted STS cluster whose live role ARN contains
\* the default-prefix marker issues operator-role deletion and OIDC provider
\* deletion and never an account-role deletion; account roles are deleted only
\* when the live role ARN lacks the marker.
C19_DefaultPrefixRolesKept ==
    /\ (NonHostedSTS /\ HasMarker)
       => /\ Count("delete account-roles") = 0
          /\ pc # "account-roles"
          /\ DeleteSucceeded
             => /\ Count("delete operator-roles") = 1
                /\ Count("delete oidc-provider") = 1
    /\ Count("delete account-roles") > 0 => ~HasMarker
    /\ (dopts.STS /\ ~HasMarker /\ DeleteSucceeded) => Count("delete account-roles") = 1

C19_Witness ==
    /\ NonHostedSTS
    /\ HasMarker
    /\ DeleteSucceeded
    /\ Count("delete operator-roles") = 1
    /\ Count("delete oidc-provider") = 1
    /\ Count("delete account-roles") = 0
    /\ roleList = createdRoleSet(Demo, FALSE) \o createdRoleSet(DefaultPrefix414, FALSE)

\* C20: for a hosted control plane or private link cluster the network stack
\* is torn down when the caller's toggle is on and retained, with no network
\* stack teardown request, when the caller leaves the toggle off.
C20_ToggleGovernsNetworkTeardown ==
    (dopts0.HostedCP \/ dopts0.PrivateLink)
    => /\ ~dopts0.DeleteHostedVPC
          => /\ Count("delete vpc") = 0
             /\ cluster.Name \in stacks
       /\ (dopts0.DeleteHostedVPC /\ DeleteSucceeded)
          => /\ Count("delete vpc") = 1
             /\ cluster.Name \notin stacks

-----------------------------------------------------------------------------
(* Region check *)

\* the region has the capabilities the request asks for
RegionCapable(r) ==
    /\ opts0.HostedCP => r.SupportsHyperShift
    /\ opts0.MultiAZ => r.SupportsMultiAZ

\* the listing was obtained and, filtered by the capability flags of the
\* request, has the target region, enabled
RegionListedEnabled ==
    /\ \E i \in CallsOf("list regions") : calls[i].ok
    /\ \E i \in 1..Len(regionList) :
          /\ regionList[i].ID = Region
          /\ RegionCapable(regionList[i])
          /\ regionList[i].Enabled

RegionChecked == trace # <<>> /\ trace[1].phase = "region"

\* the requests of the nightly wait, which precedes the region check
NightlyPolls == CallsOf("list versions")

\* C26: the region check succeeds exactly when the listing, asked for with the
\* capability flags of the request (--hosted-cp for a hosted control plane,
\* --multi-az for multiple availability zones) and so filtered by them, was
\* obtained and has an entry with the target region id that is enabled; when
\* it fails CreateCluster returns a region error and has issued no request
\* but the listing
C26_RegionCheckExact ==
    RegionChecked =>
        /\ Count("list regions") = 1
        /\ \A i \in CallsOf("list regions") :
              /\ i = Cardinality(NightlyPolls) + 1
              /\ HasFlag(calls[i].arg, "--hosted-cp") <=> opts0.HostedCP
              /\ HasFlag(calls[i].arg, "--multi-az") <=> opts0.MultiAZ
        /\ trace[1].ok <=> RegionListedEnabled
        /\ ~trace[1].ok =>
              /\ pc = "done"
              /\ ret = [ID |-> EmptyString, err |-> clusterError("create", "region")]
              /\ Len(calls) = Cardinality(NightlyPolls) + 1
              /\ sent = <<>>
              /\ compensated = 0

\* a request for multiple availability zones: the listing was obtained, the
\* account has the target region enabled but without that capability, and
\* CreateCluster returned the region error
C26_Witness ==
    /\ RegionChecked
    /\ opts0.MultiAZ
    /\ \E i \in CallsOf("list regions") : calls[i].ok
    /\ \E i \in 1..Len(regionList) :
          /\ regionList[i].ID = Region
          /\ regionList[i].Enabled
          /\ ~regionList[i].SupportsMultiAZ
    /\ ~trace[1].ok
    /\ pc = "done"

-----------------------------------------------------------------------------
(* Option defaulting *)

\* the requests of this call that carry a channel group
ChannelGroupRequests ==
    {i \in 1..Len(sent) : sent[i].op \in {"create account-roles", "create cluster"}}

\* C25: when the caller leaves the channel group unset, every request of the
\* call that carries a channel group (account-role creation and cluster
\* creation) carries "stable"
C25_DefaultedBeforeAnyPhase ==
    opts0.ChannelGroup = EmptyString =>
        \A i \in ChannelGroupRequests : sent[i].ChannelGroup = <<"stable">>

-----------------------------------------------------------------------------
(* Compensation targets *)

\* the network teardowns of compensation and the network creates, in `sent`
SentOf(op) == {i \in 1..Len(sent) : sent[i].op = op}

SameStack(a, b) ==
    /\ a.ClusterName = b.ClusterName
    /\ a.Region = b.Region
    /\ a.WorkingDir = b.WorkingDir

\* C29: a compensating network teardown is issued with the cluster name, the
\* region and the working directory that the network create request of the
\* same CreateCluster attempt received
C29_TeardownTargetsCreatedStack ==
    \A d \in SentOf("delete vpc") :
        /\ Cardinality(SentOf("create vpc")) = 1
        /\ \A c \in SentOf("create vpc") : c < d /\ SameStack(sent[c], sent[d])

\* the attempt created the stack in the caller's working directory, a later
\* phase failed and compensation issued the network teardown
C29_Witness ==
    /\ pc = "done"
    /\ opts0.WorkingDir = <<"work">>
    /\ FailedIn("create")
    /\ \E d \in SentOf("delete vpc") : sent[d].WorkingDir = <<"work">>
    /\ Count("delete vpc") = 1

-----------------------------------------------------------------------------
(* The saga without failures *)

AllCallsOk == \A i \in 1..Len(calls) : calls[i].ok

\* the faults of a collaborator that answers a request with success: a create
\* whose output cannot be read, or whose result a later listing does not show
GarbledOidc == FailedIn("oidc") /\ Count("create oidc-config") = 1
NoStackOutput == FailedIn("vpc") /\ Count("create vpc") = 1
RolesLagged == pc = "panic" /\ calls[Len(calls)].op = "list account-roles"

\* a state query succeeded with an output that has no status object, on which
\* the install wait panics
StatusMissing == pc = "panic" /\ calls[Len(calls)].op = "describe cluster"

Ended(phase, cause) ==
    \E i \in 1..Len(trace) : trace[i] = Step(phase, FALSE, cause)

\* every collaborator call succeeded and the cluster reported "ready"
GoodEnvironment ==
    /\ AllCallsOk
    /\ ~GarbledOidc /\ ~NoStackOutput /\ ~RolesLagged /\ ~StatusMissing
    /\ ~Ended("nightly", "nightly timeout")
    /\ ~Ended("install", "install timeout")
    /\ ~Ended("health", "kubeconfig")
    /\ ~Ended("health", "client")
    /\ ~Ended("health", "health timeout")

Phases == [i \in 1..Len(trace) |-> trace[i].phase]

\* the requests of the health check
HealthOps == {"kubeconfig", "get job", "list nodes", "list pods", "pod logs"}

HappyReturn ==
    /\ ret.ID # EmptyString
    /\ ret.err = NoError
    /\ Phases = <<"region", "roles", "oidc", "vpc", "create", "install">>
                 \o (IF opts0.SkipHealthCheck THEN <<>> ELSE <<"health">>)
    /\ Count("list account-roles") >= 1
    /\ Count("list oidc-configs") = 1
    /\ Count("create vpc") = 1
    /\ Count("create cluster") = 1
    /\ Count("describe cluster") >= 1
    /\ observed[Len(observed)] = "ready"
    /\ opts0.SkipHealthCheck => \A op \in HealthOps : Count(op) = 0
    /\ ~opts0.SkipHealthCheck =>
          /\ Count("kubeconfig") = 1
          /\ Count("list nodes") >= 1
          /\ calls[Len(calls)].op = "list nodes"

\* C22: for a hosted control plane request without OIDC config id or subnets,
\* when the region is available, every collaborator call succeeds and the
\* cluster reports "ready", CreateCluster eventually returns, and it returns a
\* non-empty cluster id and no error after the account-role resolution, the
\* OIDC resolution, the network provisioning, the cluster create and the
\* install poll, without any kubeconfig or health-check call when
\* SkipHealthCheck is set
C22_HappyPathCompletes ==
    /\ [](pc = "done" /\ GoodEnvironment /\ RegionListedEnabled => HappyReturn)
    /\ <>(pc = "done" \/ RolesLagged \/ StatusMissing)

\* the request skipped the health check, the account had no roles, every
\* phase ran and CreateCluster returned the cluster id
C22_Witness ==
    /\ pc = "done"
    /\ GoodEnvironment
    /\ RegionListedEnabled
    /\ HappyReturn
    /\ opts0.SkipHealthCheck
    /\ Count("create account-roles") = 1
    /\ Count("create oidc-config") = 1
    /\ ret.ID = ClusterID(Demo)

-----------------------------------------------------------------------------
(* Sizing arguments of the cluster-create request *)

\* the cluster-create requests of this call
ClusterRequests == {sent[i] : i \in SentOf("create cluster")}

\* the flat replica count after defaulting: an unset count is 2
DefaultedReplicas == IF opts0.Replicas = 0 THEN defaultReplicas ELSE opts0.Replicas

\* the flat replica count a multi-AZ request is raised to
RaisedReplicas ==
    IF DefaultedReplicas < multiAZReplicas THEN multiAZReplicas ELSE DefaultedReplicas

BothBoundsSet == opts0.MinReplicas > 0 /\ opts0.MaxReplicas > 0

\* C23, as stated: a multi-AZ request carries a replica count of 3 when its
\* flat count is below 3 and its flat count unchanged otherwise, unless both
\* bounds are above 0, when it carries the two bounds and no flat count
C23_MultiAZReplicasCarried ==
    \A r \in ClusterRequests :
        /\ opts0.MultiAZ /\ ~BothBoundsSet => r.Replicas = <<RaisedReplicas>>
        /\ BothBoundsSet =>
              /\ r.MinReplicas = <<opts0.MinReplicas>>
              /\ r.MaxReplicas = <<opts0.MaxReplicas>>
              /\ r.Replicas = <<>>

\* C23, amended: with both bounds 0 a multi-AZ request carries a replica
\* count of exactly 3 when its flat count is below 3 (unset included) and its
\* flat count unchanged when it is 3 or more; with a bound other than 0 the
\* request carries no flat count, and it carries each bound that is above 0
C23_ReplicaArguments ==
    \A r \in ClusterRequests :
        /\ opts0.MultiAZ /\ opts0.MinReplicas = 0 /\ opts0.MaxReplicas = 0 =>
              r.Replicas = <<RaisedReplicas>>
        /\ opts0.MinReplicas # 0 \/ opts0.MaxReplicas # 0 => r.Replicas = <<>>
        /\ r.MinReplicas = IF opts0.MinReplicas > 0 THEN <<opts0.MinReplicas>> ELSE <<>>
        /\ r.MaxReplicas = IF opts0.MaxReplicas > 0 THEN <<opts0.MaxReplicas>> ELSE <<>>

\* a multi-AZ request for one replica, no bounds: the request carries 3
C23_Witness ==
    /\ opts0.MultiAZ
    /\ opts0.Replicas = 1
    /\ opts0.MinReplicas = 0 /\ opts0.MaxReplicas = 0
    /\ \E r \in ClusterRequests : r.Replicas = <<multiAZReplicas>>

\* C24: whenever autoscaling is enabled in the create options, the
\* cluster-create request carries no flat replica argument, whatever the
\* values of the replica fields
C24_AutoscalingSuppressesReplicas ==
    opts0.EnableAutoscaling => \A r \in ClusterRequests : r.Replicas = <<>>

-----------------------------------------------------------------------------
(* Version filter *)

\* Versions returned for a listing that was obtained and with constraints given
Filtered ==
    /\ pc = "versions-done"
    /\ calls[1].ok
    /\ hin.constraints # <<>>

BadConstraint == \E i \in DOMAIN hin.constraints : ~NewConstraintOk(hin.constraints[i])
BadCandidate == \E i \in DOMAIN hin.versions : ~NewVersionOk(hin.versions[i].RawID)

\* the versions of the listing that satisfy at least one of the constraints
Satisfying ==
    {v \in {hin.versions[i] : i \in DOMAIN hin.versions} :
        \E i \in DOMAIN hin.constraints : Check(hin.constraints[i], v.RawID)}

\* C27: with constraints given, Versions returns an error and no list exactly
\* when a constraint or a candidate version does not parse, whatever has
\* matched before; valid constraints that match no version give the empty list
\* and no error
C27_UnparseableAborts ==
    Filtered =>
        /\ hout.err <=> (BadConstraint \/ BadCandidate)
        /\ hout.err => hout.list = <<>>
        /\ ~hout.err /\ Satisfying = {} => hout.list = <<>>

\* the first candidate satisfies the first constraint, a later candidate does
\* not parse, and Versions returned the error without a list
C27_Witness ==
    /\ Filtered
    /\ ~BadConstraint
    /\ Len(hin.versions) >= 2
    /\ NewVersionOk(hin.versions[1].RawID)
    /\ Check(hin.constraints[1], hin.versions[1].RawID)
    /\ ~NewVersionOk(hin.versions[Len(hin.versions)].RawID)
    /\ hout.err
    /\ hout.list = <<>>

\* C28: with valid constraints, the result of Versions consists of exactly the
\* versions that satisfy at least one constraint, each of them once
C28_UnionEachOnce ==
    Filtered /\ ~BadConstraint /\ ~BadCandidate =>
        /\ ~hout.err
        /\ {hout.list[i] : i \in DOMAIN hout.list} = Satisfying
        /\ \A i, j \in DOMAIN hout.list : i # j => hout.list[i] # hout.list[j]

-----------------------------------------------------------------------------
(* Version gate agreement *)

\* C30: for a downgrade in minor version and for a z-stream upgrade within
\* the same minor version, addGateAgreement performs no gate lookup and adds
\* no agreement
C30_GateOnlyWhenMinorRises ==
    pc = "gate-done" /\ Minor(hin.currentVersion) >= Minor(hin.upgradeVersion) =>
        /\ Count("list version-gates") = 0
        /\ Count("add gate-agreement") = 0
        /\ hout.agreed = hin.agreed
        /\ ~hout.err

-----------------------------------------------------------------------------
(* Requests per execution *)

MutatingOps ==
    {"create account-roles", "create oidc-config", "create vpc", "create cluster",
     "delete cluster", "delete operator-roles", "delete oidc-provider",
     "delete oidc-config", "delete vpc", "delete account-roles"}

\* the requests that read state and change nothing
ReadOnlyOps ==
    {"list versions", "list regions", "list account-roles", "list oidc-configs",
     "find cluster", "describe cluster", "poll cluster", "logs uninstall",
     "kubeconfig", "get job", "list nodes", "list pods", "pod logs"}

\* C21: within one CreateCluster or DeleteCluster execution every mutating
\* request is issued at most once, whether it succeeds or fails; a request
\* that is issued more than once is a read-only one
C21_MutatingRequestsOnce ==
    /\ \A op \in MutatingOps : Count(op) <= 1
    /\ \A i \in DOMAIN calls :
          Count(calls[i].op) > 1 => calls[i].op \in ReadOnlyOps
    /\ \A i \in DOMAIN calls : calls[i].op \in MutatingOps \cup ReadOnlyOps

\* a DeleteCluster execution whose delete command failed after one request
C21_Witness ==
    /\ pc = "done"
    /\ Count("delete cluster") = 1
    /\ \E i \in CallsOf("delete cluster") : ~calls[i].ok
    /\ ret.err # NoError

-----------------------------------------------------------------------------
(* The delete wait and the teardown that follows it *)

\* the teardown requests DeleteCluster issues after the delete wait
DeleteTeardownOps ==
    {"delete operator-roles", "delete oidc-provider", "delete oidc-config",
     "delete vpc", "delete account-roles"}

\* the poll that ended the delete wait observed an empty cluster listing
PollEndedOnAbsence == observed # <<>> /\ observed[Len(observed)] = "absent"

\* C31: DeleteCluster issues a teardown request (operator roles, OIDC provider
\* or config, network stack, account roles) only when the cluster was absent
\* from the cluster manager when the delete poll completed: a lookup that
\* failed for another reason does not end the wait as deleted
C31_TeardownOnlyAfterAbsence ==
    /\ \A i \in DOMAIN trace :
          (trace[i].phase = "delete-wait" /\ trace[i].ok) => PollEndedOnAbsence
    /\ \A op \in DeleteTeardownOps :
          Count(op) > 0 => (PollEndedOnAbsence /\ ~clusterUp)

-----------------------------------------------------------------------------
(* Compensation and the created cluster *)

\* the cluster-create command of this attempt succeeded
CreateCommandSucceeded == \E i \in CallsOf("create cluster") : calls[i].ok

\* C32: once the cluster-create command of a CreateCluster attempt has
\* succeeded, the attempt issues no teardown of the network stack, the OIDC
\* config or the account roles
C32_NoTeardownOnceClusterCreated ==
    CreateCommandSucceeded => (Teardowns = {} /\ compensated = 0)

-----------------------------------------------------------------------------
(* Repeated CreateCluster calls *)

\* the k-th request of an operation, in `calls` and in `sent`
NthCall(op, k) ==
    CHOOSE j \in CallsOf(op) : Cardinality({i \in CallsOf(op) : i <= j}) = k

NthSent(op, k) ==
    CHOOSE j \in SentOf(op) : Cardinality({i \in SentOf(op) : i <= j}) = k

\* the subnet ids CreateCluster takes from the network stack it provisioned
StackSubnets == PrivateSubnet \o <<",">> \o PublicSubnet

\* before request j, a teardown `del` of `arg` succeeded and no `create`
\* request has succeeded since
TornDownBefore(j, del, create, arg) ==
    \E i \in 1..(j - 1) :
        /\ calls[i] = Call(del, arg, TRUE)
        /\ \A m \in (i + 1)..(j - 1) : ~(calls[m].op = create /\ calls[m].ok)

\* C33: no cluster-create request carries an OIDC config id or the subnet ids
\* of a network stack that the compensation of an earlier failed CreateCluster
\* call deleted, whether the caller passes the options record of the failed
\* call or a new one
C33_NoDeletedDependenciesReused ==
    \A k \in 1..Count("create cluster") :
        LET j == NthCall("create cluster", k)
            r == sent[NthSent("create cluster", k)]
        IN /\ ~TornDownBefore(j, "delete oidc-config", "create oidc-config",
                              r.OidcConfigID)
           /\ r.SubnetIDs = StackSubnets
              => ~TornDownBefore(j, "delete vpc", "create vpc", r.ClusterName)

-----------------------------------------------------------------------------
(* Concurrent invocations *)

\* C34: when two CreateCluster invocations that resolve the same account-role
\* prefix run concurrently, at most one account-role create request is issued
\* for the prefix
C34_OneCreatePerSharedPrefix ==
    Cardinality({i \in CallsOf("create account-roles") : calls[i].arg = rprefix}) <= 1

-----------------------------------------------------------------------------
(* The role set CreateCluster proceeds with *)

RolesResolved == \E i \in DOMAIN trace : trace[i].phase = "roles" /\ trace[i].ok

\* C35: the account-role resolver never returns success without a role set:
\* when its create request succeeded and the get that follows finds no
\* matching role it returns an error, so CreateCluster never dereferences an
\* absent role set and never proceeds without one
C35_NoSuccessWithoutRoleSet ==
    /\ ~RolesLagged
    /\ RolesResolved => opts.accountRoles # EmptyRoles

-----------------------------------------------------------------------------
(* Completeness of an accepted role set *)

BaseSlots(roles) ==
    <<roles.controlPlaneRoleARN, roles.installerRoleARN, roles.supportRoleARN,
      roles.workerRoleARN>>

HostedSlots(roles) ==
    <<roles.hcpInstallerRoleARN, roles.hcpSupportRoleARN, roles.hcpWorkerRoleARN>>

\* every slot is filled, and no two slots from the same listed role
FilledApart(slots) ==
    /\ \A i \in DOMAIN slots : slots[i] # EmptyString
    /\ \A i, j \in DOMAIN slots : i # j => slots[i] # slots[j]

\* the slots a complete role set of the partition has
RequiredSlots(roles, fed) ==
    IF fed THEN BaseSlots(roles) ELSE BaseSlots(roles) \o HostedSlots(roles)

\* C36: every role set the resolver accepts is complete: in a standard
\* partition all seven slots are non-empty, in a restricted partition the four
\* base slots are, each slot filled from a different listed role, whatever
\* other roles with the prefix the listing contains
C36_AcceptedRoleSetComplete ==
    \A i \in DOMAIN rcalls :
        (~rcalls[i].res.err /\ ~rcalls[i].res.isNil)
        => FilledApart(RequiredSlots(rcalls[i].res.roles, fedRamp))

-----------------------------------------------------------------------------
(* Role arguments of a hosted control plane request *)

\* C37: the cluster-create command for a hosted control plane cluster is
\* never issued with an empty hosted control plane installer, support or
\* worker role ARN
C37_HostedRequestCarriesHostedRoles ==
    \A r \in ClusterRequests :
        r.HostedCP => /\ r.HcpInstallerRoleARN # EmptyString
                      /\ r.HcpSupportRoleARN # EmptyString
                      /\ r.HcpWorkerRoleARN # EmptyString

-----------------------------------------------------------------------------
(* The account-role prefix DeleteCluster deletes *)

\* C38: when DeleteCluster deletes account roles, the prefix it deletes is
\* the cluster-specific prefix CreateCluster used for the cluster (the name of
\* the cluster), whether the caller identified the cluster by name or by id
C38_DeletesRolesOfClusterName ==
    \A i \in CallsOf("delete account-roles") : calls[i].arg = cluster.Name

-----------------------------------------------------------------------------
(* The config the OIDC resolver finds *)

\* C39: the OIDC resolver called with a prefix never returns the config of a
\* different prefix: an id it returns without creating belongs to a listed
\* config that was created for exactly that prefix, also when the prefix is a
\* substring of the prefix of another cluster
C39_LookupReturnsOwnConfig ==
    \A i \in DOMAIN rcalls :
        (~rcalls[i].err /\ ~IssuedOidcCreate(rcalls[i].calls))
        => \E k \in DOMAIN rcalls[i].before :
              /\ rcalls[i].before[k].ID = rcalls[i].ID
              /\ rcalls[i].before[k].SecretArn = SecretArnOf(rprefix)

====
